---- MODULE Spec2Model ----
(***************************************************************************)
(* Vendor purchase-invoice wizard (pages/1_Create_Invoice.py) and the      *)
(* creation pipeline behind it (utils/invoice_data.py,                     *)
(* utils/invoice_attachments.py, utils/s3_utils.py,                        *)
(* utils/invoice_service.py).                                              *)
(*                                                                         *)
(* A DataFrame is modelled by the set of can_line_id of its rows (the code *)
(* drops duplicate ids); the columns of a row are read from the database   *)
(* tables.  Quantities are integers.                                       *)
(***************************************************************************)
EXTENDS Integers, FiniteSets, Sequences, TLC

\* ---------------------------------------------------------------------
\* Bounds of the model
\* ---------------------------------------------------------------------
NumLines == 2
NumPoLines == 2
MaxFiles == 2
MaxAttempts == 1
MaxPoQty == 12
MaxLegacy == 1
MaxPrior == 1
\* arrival_quantity of the arrival lines of the catalogue
BaseArrivalQty == 6

LineIds == 1..NumLines
PoIds == 1..NumPoLines
Vendors == {"V1", "V2"}
Entities == {"E1", "E2"}
VendorTypes == {"Internal", "External"}
PaymentTermNames == {"T1", "T2"}
VatRates == {0, 10}
None == "None"

\* ---------------------------------------------------------------------
\* State
\* ---------------------------------------------------------------------
VARIABLES
    \* database tables (read side)
    arrival_details,        \* can_line_id -> row of the arrival line
    product_purchase_orders,\* PO line id -> row of the PO line
    \* database tables written by the creation pipeline
    medias,                 \* set of [id, path]
    purchase_invoices,      \* set of header rows
    purchase_invoice_details,
    purchase_invoice_medias,
    \* object store: keys of the objects that exist
    s3,
    \* InvoiceState (st.session_state.invoice_state)
    selected_ans,
    wizard_step,
    filters,
    hide_completed_po_lines,
    selected_df,
    details_df,
    invoice_data,
    invoice_creating,
    uploaded_files,
    \* what the last render of the selection summary showed
    summary,
    \* whether the last render of the preview showed the form
    preview_form,
    \* create_invoice_final: position and locals
    pc,
    upload_idx,
    upload_results,
    s3_keys_uploaded,
    media_ids_created,
    tx,
    \* record of the running / last attempt
    attempt,
    \* currency_utils: module-level cache of the API rates
    _rate_cache,            \* cache key -> rate
    _cache_expiry,          \* cache key -> time at which the entry expires
    \* datetime.now(), counted in half hours
    now,
    \* database table exchange_rates: set of rows
    exchange_rates,
    \* the last call of get_latest_exchange_rate: arguments, result, and
    \* whether it called the API and queried the database
    resolved,
    \* currency of the purchase order of the arrival lines
    po_currency_code,
    \* InvoiceState: currency of the invoice, rates and totals of the preview
    invoice_currency_code,
    state_exchange_rates,
    invoice_totals,
    \* what validate_exchange_rates returned in the last render
    rates_valid,
    \* payment terms: the label and description of a term, an invoice date,
    \* and what the term functions returned for them
    term,
    term_description,
    term_date,
    term_result,
    \* amounts: the selected lines, the rate of the invoice, and what the
    \* totals of the form and create_purchase_invoice computed from them
    amt_lines,
    amt_rate,
    amt_result,
    \* invoice management: the last call of update_invoice or delete_invoice
    manage_call,
    \* concurrent wizard sessions: per session the step, the selection, the
    \* validation result and the invoice number of the preview
    sessions

dbVars == <<arrival_details, product_purchase_orders>>
storeVars == <<medias, purchase_invoices, purchase_invoice_details,
               purchase_invoice_medias, s3>>
wizVars == <<selected_ans, wizard_step, filters, hide_completed_po_lines,
             selected_df, details_df, invoice_data, uploaded_files,
             summary, preview_form>>
runVars == <<pc, upload_idx, upload_results, s3_keys_uploaded,
             media_ids_created, tx, attempt>>
rateVars == <<_rate_cache, _cache_expiry, now, exchange_rates, resolved>>
curVars == <<po_currency_code, invoice_currency_code, state_exchange_rates,
             invoice_totals, rates_valid>>
termVars == <<term, term_description, term_date, term_result>>
amtVars == <<amt_lines, amt_rate, amt_result>>
manageVars == <<manage_call>>
sessVars == <<sessions>>
vars == <<dbVars, storeVars, wizVars, invoice_creating, runVars, rateVars,
          curVars, termVars, amtVars, manageVars, sessVars>>


\* ---------------------------------------------------------------------
\* Database views read by the wizard
\* ---------------------------------------------------------------------
RECURSIVE SumQty(_)
SumQty(rows) ==
    IF rows = {} THEN 0
    ELSE LET r == CHOOSE x \in rows : TRUE
         IN r.purchased_invoice_quantity + SumQty(rows \ {r})

RECURSIVE SumOver(_, _)
SumOver(S, f) ==
    IF S = {} THEN 0
    ELSE LET x == CHOOSE y \in S : TRUE
         IN f[x] + SumOver(S \ {x}, f)

GREATEST(a, b) == IF a >= b THEN a ELSE b
LEAST(a, b) == IF a <= b THEN a ELSE b

\* AN Uninv: "Arrival Qty - Invoiced from this AN"
uninvoiced_quantity(i) ==
    arrival_details[i].arrival_quantity
      - arrival_details[i].prior_invoiced
      - SumQty({d \in purchase_invoice_details : d.arrival_detail_id = i})

\* new_invoices CTE: detail rows of the PO line that carry an arrival linkage
new_invoice_qty(p) ==
    SumOver({i \in LineIds : arrival_details[i].product_purchase_order_id = p},
            [i \in LineIds |-> arrival_details[i].prior_invoiced])
      + SumQty({d \in purchase_invoice_details : d.product_purchase_order_id = p})

po_remaining_qty(p) ==
    product_purchase_orders[p].purchase_quantity
      - (product_purchase_orders[p].legacy_invoice_qty + new_invoice_qty(p))

\* PO Pend: "PO Qty - Total Invoiced at PO level, includes legacy invoices"
po_line_pending_invoiced_qty(i) ==
    po_remaining_qty(arrival_details[i].product_purchase_order_id)

\* faulty variant: the lower clamp GREATEST(0, ...) is left out
true_remaining_unclamped(i) ==
    LEAST(uninvoiced_quantity(i), po_line_pending_invoiced_qty(i))

true_remaining_qty(i) ==
    GREATEST(0, LEAST(uninvoiced_quantity(i), po_line_pending_invoiced_qty(i)))

\* rows returned for the selection step under the given filters
get_uninvoiced_ans(f) ==
    {i \in LineIds :
        /\ uninvoiced_quantity(i) > 0
        /\ (f.vendors # {} => arrival_details[i].vendor_code \in f.vendors)}

\* rows shown in the table (one page: the catalogue is smaller than a page)
display_an_results(df, hide) ==
    IF hide
    THEN {i \in df : po_line_pending_invoiced_qty(i) > 0}
    ELSE df

get_selected_dataframe(df, sel) ==
    IF sel = {} THEN {} ELSE {i \in df : i \in sel}

\* rows returned for the preview (WHERE ad.id IN :can_line_ids)
get_invoice_details(can_line_ids) == {i \in LineIds : i \in can_line_ids}

\* the column the preview query names uninvoiced_quantity is ad.arrival_quantity
details_uninvoiced_quantity(i) == arrival_details[i].arrival_quantity

\* PO lines for which the summary query returns a row: `returned` is what the
\* database gives back (nothing when the query fails, no row for a PO line
\* whose order or line is flagged deleted)
get_po_line_summary(po_line_ids, returned) ==
    IF po_line_ids = {} THEN {}
    ELSE {p \in po_line_ids : p \in returned}

\* ---------------------------------------------------------------------
\* Selection validation
\* ---------------------------------------------------------------------
unique(df, col) == {arrival_details[i][col] : i \in df}

\* faulty variant: the legal entity check is left out
validate_invoice_selection_no_entity_check(df) ==
    IF df = {} THEN [is_valid |-> FALSE, error_msg |-> "No items selected"]
    ELSE IF Cardinality(unique(df, "vendor_code")) > 1
    THEN [is_valid |-> FALSE, error_msg |-> "Multiple vendors selected"]
    ELSE IF Cardinality(unique(df, "vendor_type")) > 1
    THEN [is_valid |-> FALSE, error_msg |-> "Cannot mix Internal and External vendors"]
    ELSE [is_valid |-> TRUE, error_msg |-> ""]

validate_invoice_selection(df) ==
    IF df = {} THEN [is_valid |-> FALSE, error_msg |-> "No items selected"]
    ELSE IF Cardinality(unique(df, "vendor_code")) > 1
    THEN [is_valid |-> FALSE, error_msg |-> "Multiple vendors selected"]
    ELSE IF Cardinality(unique(df, "vendor_type")) > 1
    THEN [is_valid |-> FALSE, error_msg |-> "Cannot mix Internal and External vendors"]
    ELSE IF Cardinality(unique(df, "legal_entity_code")) > 1
    THEN [is_valid |-> FALSE, error_msg |-> "Multiple legal entities selected"]
    ELSE [is_valid |-> TRUE, error_msg |-> ""]

\* lines 183-208 of validate_invoice_with_po_level
po_level_basic(df) ==
    IF df = {} THEN "No items selected"
    ELSE IF Cardinality(unique(df, "vendor_code")) > 1
    THEN "Multiple vendors selected"
    ELSE IF Cardinality(unique(df, "legal_entity_code")) > 1
    THEN "Multiple legal entities selected"
    ELSE IF Cardinality(unique(df, "vendor_type")) > 1
    THEN "Cannot mix Internal and External vendors"
    ELSE None

total_selected(df, po_id) ==
    SumOver({i \in df : arrival_details[i].product_purchase_order_id = po_id},
            [i \in LineIds |-> uninvoiced_quantity(i)])

\* faulty variant: no 10% tolerance
exceeds_without_tolerance(sel_qty, remaining_qty) == sel_qty > remaining_qty

\* total_selected > remaining_qty * 1.1
exceeds_tolerance(sel_qty, remaining_qty) == 10 * sel_qty > 11 * remaining_qty

\* total_selected > remaining_qty * 0.9
near_limit(sel_qty, remaining_qty) == 10 * sel_qty > 9 * remaining_qty

\* lines 210-249: the loop over the PO lines of the selection
po_level_checks(df, po_summary) ==
    LET po_line_ids == unique(df, "product_purchase_order_id")
        checked == {p \in po_line_ids : p \in po_summary}
        over == {p \in checked :
                   exceeds_tolerance(total_selected(df, p), po_remaining_qty(p))}
        first == IF over = {} THEN NumPoLines + 1
                 ELSE CHOOSE p \in over : \A q \in over : p <= q
        seen == {p \in checked : p < first}
    IN [blocked |-> over # {},
        warnings |->
            {<<"legacy", p>> : p \in {q \in seen :
                 product_purchase_orders[q].legacy_invoice_qty > 0}}
            \cup
            {<<"near_limit", p>> : p \in {q \in seen :
                 near_limit(total_selected(df, q), po_remaining_qty(q))}}]

\* lines 251-291: warnings on payment terms (dropna), VAT rates and the
\* has_legacy_invoices column; the over-delivery and over-invoicing flags
\* of the view are not part of the model
column_warnings(df) ==
    LET payment_terms == unique(df, "payment_term") \ {None}
        vat_rates == unique(df, "vat_percent")
        has_legacy == {i \in df :
            product_purchase_orders[
                arrival_details[i].product_purchase_order_id].legacy_invoice_qty > 0}
    IN (IF Cardinality(payment_terms) > 1 THEN {<<"payment_terms", 0>>} ELSE {})
       \cup (IF Cardinality(vat_rates) > 1 THEN {<<"vat_rates", 0>>} ELSE {})
       \cup (IF has_legacy # {}
             THEN {<<"has_legacy_invoices", Cardinality(has_legacy)>>} ELSE {})

validate_invoice_with_po_level(df, po_summary) ==
    IF po_level_basic(df) # None
    THEN [can_invoice |-> FALSE, has_warnings |-> FALSE,
          error |-> po_level_basic(df), warnings |-> {}]
    ELSE LET c == po_level_checks(df, po_summary)
             w == c.warnings \cup column_warnings(df)
         IN IF c.blocked
            THEN [can_invoice |-> FALSE,
                  has_warnings |-> c.warnings # {},
                  error |-> "Selection exceeds PO remaining quantity",
                  warnings |-> c.warnings]
            ELSE [can_invoice |-> TRUE,
                  has_warnings |-> w # {},
                  error |-> None,
                  warnings |-> w]

\* what show_selection_summary renders for the current selection
NoSummary == [shown |-> FALSE]
NotCalled == [can_invoice |-> FALSE, has_warnings |-> FALSE,
              error |-> None, warnings |-> {}]

\* the columns of a row of the selection dataframe used by the summary
selection_row(i) ==
    [uninvoiced_quantity |-> uninvoiced_quantity(i),
     po_line_pending_invoiced_qty |-> po_line_pending_invoiced_qty(i),
     true_remaining_qty |-> true_remaining_qty(i),
     product_purchase_order_id |-> arrival_details[i].product_purchase_order_id]

show_selection_summary(df, sel, returned) ==
    LET sdf == get_selected_dataframe(df, sel)
        v == validate_invoice_selection(sdf)
        po_summary == get_po_line_summary(
                          unique(sdf, "product_purchase_order_id"), returned)
    IN IF sel = {} \/ sdf = {} THEN NoSummary
       ELSE IF ~v.is_valid
       THEN [shown |-> TRUE, rows |-> sdf,
             df |-> [i \in sdf |-> selection_row(i)], is_valid |-> FALSE,
             error_msg |-> v.error_msg, po_called |-> FALSE,
             po_summary |-> {}, po_result |-> NotCalled, proceed |-> FALSE]
       ELSE LET r == validate_invoice_with_po_level(sdf, po_summary)
            IN [shown |-> TRUE, rows |-> sdf,
                df |-> [i \in sdf |-> selection_row(i)], is_valid |-> TRUE,
                error_msg |-> "", po_called |-> TRUE,
                po_summary |-> po_summary, po_result |-> r,
                proceed |-> r.can_invoice]



\* ---------------------------------------------------------------------
\* currency_utils: exchange rates
\* ---------------------------------------------------------------------
\* number of clock ticks in one hour, and the last tick of the clock
TicksPerHour == 2
MaxClock == 4

Currencies == {"USD", "VND"}

\* Optional[float]: a rate is the fraction num/den
Rate(n, d) == [none |-> FALSE, num |-> n, den |-> d]
NoRate == [none |-> TRUE, num |-> 0, den |-> 1]
One == Rate(1, 1)

\* rows of the table exchange_rates: for each ordered pair a row of the
\* later date (live with a negative, zero or positive rate_value, or
\* deleted) and a live row of the earlier date
ExchangeRateRows ==
    [from_currency_code : Currencies, to_currency_code : Currencies,
     rate_value : {-2, 0, 2}, rate_date : {2}, delete_flag : {0}]
    \cup [from_currency_code : Currencies, to_currency_code : Currencies,
          rate_value : {2}, rate_date : {2}, delete_flag : {1}]
    \cup [from_currency_code : Currencies, to_currency_code : Currencies,
          rate_value : {3}, rate_date : {1}, delete_flag : {0}]

\* the tables the model starts from: rows between different currencies,
\* at most one row for a pair and a date
ExchangeRateTables ==
    {t \in SUBSET {r \in ExchangeRateRows :
                       r.from_currency_code # r.to_currency_code} :
        \A r1, r2 \in t :
            (/\ r1.from_currency_code = r2.from_currency_code
             /\ r1.to_currency_code = r2.to_currency_code
             /\ r1.rate_date = r2.rate_date) => r1 = r2}

\* what the call of the rate API comes to: no EXCHANGE_RATE_API_KEY,
\* requests.get raises, raise_for_status raises, or a JSON answer with its
\* fields success and result
ApiRates == {Rate(5, 1)}
ApiAnswers ==
    [kind : {"no_api_key", "transport_error", "http_error"},
     success : {FALSE}, result : {NoRate}]
    \cup [kind : {"json"}, success : BOOLEAN, result : ApiRates \cup {NoRate}]

\* f"{from_currency}-{to_currency}"
cache_key(from_currency, to_currency) == <<from_currency, "-", to_currency>>

\* now + timedelta(hours=h)
timedelta_hours(t, h) == t + h * TicksPerHour

EmptyCache == [k \in {} |-> NoRate]
dict_set(d, key, value) ==
    [k \in DOMAIN d \cup {key} |-> IF k = key THEN value ELSE d[k]]

\* SELECT rate_value FROM exchange_rates WHERE from_currency_code = :from_curr
\* AND to_currency_code = :to_curr AND delete_flag = 0
\* ORDER BY rate_date DESC LIMIT 1 : the set of the rows fetched (one or none)
latest_rate_row(table, from_curr, to_curr) ==
    LET rows == {r \in table : /\ r.from_currency_code = from_curr
                               /\ r.to_currency_code = to_curr
                               /\ r.delete_flag = 0}
    IN {r \in rows : \A q \in rows : q.rate_date <= r.rate_date}

\* 1.0 / float(result[0]) behind the test result[0] > 0
inverse_rate(rate_value) ==
    IF rate_value > 0 THEN Rate(1, rate_value) ELSE NoRate

\* get_rate_from_database; db_ok is false when the engine or a query raises
get_rate_from_database(table, from_currency, to_currency, db_ok) ==
    LET direct == latest_rate_row(table, from_currency, to_currency)
        inverse == latest_rate_row(table, to_currency, from_currency)
    IN IF ~db_ok THEN NoRate
       ELSE IF direct # {}
            THEN Rate((CHOOSE r \in direct : TRUE).rate_value, 1)
       ELSE IF inverse # {}
            THEN inverse_rate((CHOOSE r \in inverse : TRUE).rate_value)
       ELSE NoRate

\* the cache test without the comparison of the expiry time
cache_valid_ignoring_expiry(cache, expiry, key, t) ==
    key \in DOMAIN cache /\ key \in DOMAIN expiry

\* the cache test of get_latest_exchange_rate
cache_valid(cache, expiry, key, t) ==
    key \in DOMAIN cache /\ key \in DOMAIN expiry /\ expiry[key] > t

\* the API answered with a rate, whatever it says of success
api_gave_rate_ignoring_success(api) ==
    api.kind = "json" /\ ~api.result.none

\* data.get('success', False) and data.get('result') is not None
api_gave_rate(api) ==
    api.kind = "json" /\ api.success /\ ~api.result.none

\* get_latest_exchange_rate: result, the cache after the call and what the
\* call did
get_latest_exchange_rate(from_currency, to_currency, cache, expiry, t, table, api, db_ok) ==
    LET key == cache_key(from_currency, to_currency)
        same == from_currency = to_currency
        hit == ~same /\ cache_valid(cache, expiry, key, t)
        no_api_key == ~same /\ ~hit /\ api.kind = "no_api_key"
        fetched == ~same /\ ~hit /\ ~no_api_key /\ api_gave_rate(api)
        fell_back == ~same /\ ~hit /\ ~fetched
    IN [from_currency |-> from_currency,
        to_currency |-> to_currency,
        api_key |-> api.kind # "no_api_key",
        result |-> IF same THEN One
                   ELSE IF hit THEN cache[key]
                   ELSE IF fetched THEN api.result
                   ELSE get_rate_from_database(table, from_currency,
                                               to_currency, db_ok),
        cache |-> IF fetched THEN dict_set(cache, key, api.result)
                  ELSE cache,
        expiry |-> IF fetched THEN dict_set(expiry, key, timedelta_hours(t, 1))
                   ELSE expiry,
        cache_hit |-> hit,
        api_called |-> fetched \/ (fell_back /\ ~no_api_key),
        api_success |-> (fetched \/ fell_back) /\ api.kind = "json"
                        /\ api.success,
        db_called |-> fell_back,
        db_raised |-> fell_back /\ ~db_ok]

NoCall == [from_currency |-> None, to_currency |-> None, api_key |-> FALSE,
           api_success |-> FALSE,
           result |-> NoRate, cache |-> EmptyCache, expiry |-> EmptyCache,
           cache_hit |-> FALSE, api_called |-> FALSE, db_called |-> FALSE,
           db_raised |-> FALSE]


\* ---------------------------------------------------------------------
\* Initial states
\* ---------------------------------------------------------------------
\* Optional[DataFrame] / Optional[Dict]
NoneDf == [none |-> TRUE, rows |-> {}]
Df(rows) == [none |-> FALSE, rows |-> rows]
NoInvoiceData == [none |-> TRUE]
NoFilters == [vendors |-> {}]
EmptyTx == [header |-> {}, details |-> {}, links |-> {}]
NoUploadResults == [uploaded |-> <<>>, error_count |-> 0]
NoAttempt == [n |-> 0, outcome |-> "none", failed_from |-> "none",
              keys |-> {}, deletes_issued |-> {}, media |-> {},
              upload_failed |-> FALSE, db_write_attempted |-> FALSE,
              before |-> [invoices |-> {}, details |-> {}, links |-> {}]]

ArrivalRows == [vendor_code : Vendors, legal_entity_code : Entities,
                vendor_type : VendorTypes, product_purchase_order_id : PoIds,
                arrival_quantity : {BaseArrivalQty},
                prior_invoiced : 0..MaxPrior,
                payment_term : PaymentTermNames \cup {None},
                vat_percent : VatRates]

\* every line on payment term T1 and VAT 10%
OneTermOneVat(rows) ==
    \A i \in rows : /\ arrival_details[i].payment_term = "T1"
                     /\ arrival_details[i].vat_percent = 10
PoRows == [purchase_quantity : 0..MaxPoQty, legacy_invoice_qty : 0..MaxLegacy]

\* Optional[Dict] of the rates and of the totals of the preview; the totals
\* are represented by the rate they were computed with
NoExchangeRates == [none |-> TRUE, usd_exchange_rate |-> NoRate,
                    po_to_invoice_rate |-> NoRate]
NoTotals == [none |-> TRUE, exchange_rate |-> NoRate, currency |-> None]

\* the dict calculate_exchange_rates returns, from its two calls of
\* get_latest_exchange_rate, with the cache after them
rates_of_calls(po_currency, invoice_currency, usd, po) ==
    [rates |-> [none |-> FALSE,
                usd_exchange_rate |->
                    IF invoice_currency = "USD" THEN One ELSE usd.result,
                po_to_invoice_rate |->
                    IF po_currency = invoice_currency THEN One
                    ELSE po.result],
     cache |-> po.cache,
     expiry |-> po.expiry,
     calls |-> (IF invoice_currency = "USD" THEN <<>> ELSE <<usd>>)
               \o (IF po_currency = invoice_currency THEN <<>> ELSE <<po>>)]

\* the second call, with the cache the first call left
po_to_invoice_call(po_currency, invoice_currency, usd, t, table, api, db_ok) ==
    rates_of_calls(po_currency, invoice_currency, usd,
        get_latest_exchange_rate(po_currency, invoice_currency, usd.cache,
                                 usd.expiry, t, table, api, db_ok))

\* calculate_exchange_rates: the USD rate of the invoice currency, then the
\* rate from the PO currency to the invoice currency (a call for one
\* currency returns 1.0 and does nothing else, as the branches of the code
\* that make no call)
calculate_exchange_rates(po_currency, invoice_currency, cache, expiry, t, table, api, db_ok) ==
    po_to_invoice_call(po_currency, invoice_currency,
        get_latest_exchange_rate("USD", invoice_currency, cache, expiry, t,
                                 table, api, db_ok),
        t, table, api, db_ok)

\* validate_exchange_rates
validate_exchange_rates(rates, po_currency, invoice_currency) ==
    [is_valid |-> ~(po_currency # invoice_currency
                    /\ rates.po_to_invoice_rate.none),
     warnings |->
        (IF po_currency # invoice_currency /\ rates.po_to_invoice_rate.none
         THEN {"Cannot convert"} ELSE {})
        \cup (IF invoice_currency # "USD" /\ rates.usd_exchange_rate.none
              THEN {"USD rate not available"} ELSE {})]

\* the verdict before any preview was rendered
NotValidated == [is_valid |-> TRUE, warnings |-> {}]

\* InvoiceService.calculate_invoice_totals_with_vat: amounts in the currency
\* of the unit costs, unconverted
calculate_invoice_totals_with_vat(cost_currency) ==
    [none |-> FALSE, exchange_rate |-> One, currency |-> cost_currency]

\* get_invoice_amounts_in_currency: None without a rate
get_invoice_amounts_in_currency(po_currency, invoice_currency, rate) ==
    LET exchange_rate == IF po_currency = invoice_currency THEN One ELSE rate
    IN IF exchange_rate.none THEN NoTotals
       ELSE [none |-> FALSE, exchange_rate |-> exchange_rate,
             currency |-> invoice_currency]

\* show_invoice_form, "Calculate totals"
form_totals(po_currency, invoice_currency, rate) ==
    LET converted_amounts ==
            get_invoice_amounts_in_currency(po_currency, invoice_currency, rate)
    IN IF po_currency # invoice_currency
       THEN IF ~converted_amounts.none THEN converted_amounts
            ELSE calculate_invoice_totals_with_vat(po_currency)
       ELSE [calculate_invoice_totals_with_vat(po_currency)
                EXCEPT !.currency = invoice_currency]

\* what the API and the database do during one render of the preview: for
\* the calls of calculate_exchange_rates and for the call of
\* get_invoice_amounts_in_currency
PreviewApiAnswers ==
    {a \in ApiAnswers : \/ a.kind = "transport_error"
                        \/ a.kind = "json" /\ a.success /\ ~a.result.none}
RenderEnvs == [api : PreviewApiAnswers, db_ok : BOOLEAN,
               totals_api : PreviewApiAnswers, totals_db_ok : BOOLEAN]

\* a render in USD of orders in USD resolves no rate
render_envs(po_currency, invoice_currency) ==
    IF po_currency = "USD" /\ invoice_currency = "USD"
    THEN {CHOOSE e \in RenderEnvs : TRUE}
    ELSE RenderEnvs

\* what one render of the preview leaves: rates, verdict, totals, cache
render_result(po_currency, invoice_currency, r, amounts) ==
    [rates |-> r.rates,
     rates_valid |-> validate_exchange_rates(r.rates, po_currency,
                                             invoice_currency),
     totals |-> form_totals(po_currency, invoice_currency, amounts.result),
     cache |-> amounts.cache,
     expiry |-> amounts.expiry,
     calls |-> r.calls \o (IF po_currency # invoice_currency
                           THEN <<amounts>> ELSE <<>>)]

\* the call of get_latest_exchange_rate in get_invoice_amounts_in_currency,
\* with the cache calculate_exchange_rates left
totals_call(po_currency, invoice_currency, r, t, table, env) ==
    render_result(po_currency, invoice_currency, r,
        get_latest_exchange_rate(po_currency, invoice_currency, r.cache,
            r.expiry, t, table, env.totals_api, env.totals_db_ok))

\* show_currency_selection followed by the totals of show_invoice_form
render_currency_and_totals(po_currency, invoice_currency, cache, expiry, t, table, env) ==
    totals_call(po_currency, invoice_currency,
        calculate_exchange_rates(po_currency, invoice_currency, cache, expiry,
                                 t, table, env.api, env.db_ok),
        t, table, env)

\* default_index of the currency selectbox (every currency is offered)
default_currency(po_currency) ==
    IF po_currency \in Currencies THEN po_currency ELSE "USD"

\* state.exchange_rates.get('po_to_invoice_rate', 1.0): the key is always
\* present, with the rate or None
get_po_to_invoice_rate(rates) ==
    IF rates.none THEN One ELSE rates.po_to_invoice_rate

\* ---------------------------------------------------------------------
\* Strings.  A str is the sequence of its characters.
\* ---------------------------------------------------------------------
Digits == {"0", "1", "2", "3", "4", "5", "6", "7", "8", "9"}
Whitespace == {" "}

digit_value ==
    "0" :> 0 @@ "1" :> 1 @@ "2" :> 2 @@ "3" :> 3 @@ "4" :> 4 @@
    "5" :> 5 @@ "6" :> 6 @@ "7" :> 7 @@ "8" :> 8 @@ "9" :> 9

upper_of ==
    "a" :> "A" @@ "b" :> "B" @@ "c" :> "C" @@ "d" :> "D" @@ "e" :> "E" @@
    "f" :> "F" @@ "g" :> "G" @@ "h" :> "H" @@ "i" :> "I" @@ "j" :> "J" @@
    "k" :> "K" @@ "l" :> "L" @@ "m" :> "M" @@ "n" :> "N" @@ "o" :> "O" @@
    "p" :> "P" @@ "q" :> "Q" @@ "r" :> "R" @@ "s" :> "S" @@ "t" :> "T" @@
    "u" :> "U" @@ "v" :> "V" @@ "w" :> "W" @@ "x" :> "X" @@ "y" :> "Y" @@
    "z" :> "Z"

\* str.upper()
upper(s) ==
    [i \in 1..Len(s) |-> IF s[i] \in DOMAIN upper_of THEN upper_of[s[i]]
                         ELSE s[i]]

\* str.strip()
strip(s) ==
    LET inside == {i \in 1..Len(s) : s[i] \notin Whitespace}
    IN IF inside = {} THEN <<>>
       ELSE SubSeq(s, CHOOSE i \in inside : \A j \in inside : i <= j,
                      CHOOSE i \in inside : \A j \in inside : i >= j)

\* sub occurs in s at index i
starts_at(s, sub, i) ==
    /\ i + Len(sub) - 1 <= Len(s)
    /\ SubSeq(s, i, i + Len(sub) - 1) = sub

\* sub in s
contains(s, sub) == \E i \in 1..(Len(s) + 1) : starts_at(s, sub, i)

\* any(kw in s for kw in keywords)
contains_any(s, keywords) == \E kw \in keywords : contains(s, kw)

\* str.count(c) of one character
count(s, c) == Cardinality({i \in 1..Len(s) : s[i] = c})

\* f"{a} {b}"
join_with_space(a, b) == a \o <<" ">> \o b

\* the first index from i on whose character is not in chars
skip(s, i, chars) ==
    CHOOSE k \in i..(Len(s) + 1) :
        /\ \A x \in i..(k - 1) : s[x] \in chars
        /\ k = Len(s) + 1 \/ s[k] \notin chars

RECURSIVE int_of(_)
\* int() of a string of digits
int_of(ds) ==
    IF ds = <<>> THEN 0
    ELSE int_of(SubSeq(ds, 1, Len(ds) - 1)) * 10 + digit_value[ds[Len(ds)]]

RECURSIVE str_of(_)
\* str() of a natural number
str_of(n) ==
    LET last == CHOOSE c \in Digits : digit_value[c] = n % 10
    IN IF n < 10 THEN <<last>> ELSE str_of(n \div 10) \o <<last>>

\* an Optional[int]
NoInt == [none |-> TRUE, value |-> 0]
SomeInt(n) == [none |-> FALSE, value |-> n]

\* The regular expressions of the payment terms have the shape
\*   KEYWORD \s+ or \s* (\d+)  and then, for some, \s*DAYS?
\* The pattern matches at index i of s: the keyword, at least min_space
\* blanks, at least one digit and, when days_suffix, blanks and DAY (an S
\* after DAY is optional and changes no group).
pattern_at(s, keyword, min_space, days_suffix, i) ==
    /\ starts_at(s, keyword, i)
    /\ LET b == skip(s, i + Len(keyword), Whitespace)
           c == skip(s, b, Digits)
       IN /\ b - (i + Len(keyword)) >= min_space
          /\ c > b
          /\ days_suffix => starts_at(s, <<"D", "A", "Y">>, skip(s, c, Whitespace))

\* group(1) of the match at index i
group_at(s, keyword, i) ==
    LET b == skip(s, i + Len(keyword), Whitespace)
    IN SubSeq(s, b, skip(s, b, Digits) - 1)

match_starts(s, keyword, min_space, days_suffix) ==
    {i \in 1..Len(s) : pattern_at(s, keyword, min_space, days_suffix, i)}

least(S) == CHOOSE i \in S : \A j \in S : i <= j
greatest(S) == CHOOSE i \in S : \A j \in S : i >= j

first_group(s, keyword, starts) ==
    IF starts = {} THEN NoInt
    ELSE SomeInt(int_of(group_at(s, keyword, least(starts))))

last_group(s, keyword, starts) ==
    IF starts = {} THEN NoInt
    ELSE SomeInt(int_of(group_at(s, keyword, greatest(starts))))

\* int(re.search(pattern, s).group(1)), None when there is no match
re_search(s, keyword, min_space, days_suffix) ==
    first_group(s, keyword, match_starts(s, keyword, min_space, days_suffix))

\* int(re.findall(pattern, s)[-1]), None when there is no match; two
\* matches of these patterns never overlap
re_findall_last(s, keyword, min_space, days_suffix) ==
    last_group(s, keyword, match_starts(s, keyword, min_space, days_suffix))

\* a term name read from the database: NULL (pd.isna) or a str
NaTerm == [isna |-> TRUE, str |-> <<>>]
Term(s) == [isna |-> FALSE, str |-> s]

\* ---------------------------------------------------------------------
\* datetime.date: proleptic Gregorian calendar
\* ---------------------------------------------------------------------
CalendarYears == 2023..2027

is_leap(y) == y % 4 = 0 /\ (y % 100 # 0 \/ y % 400 = 0)

days_in_month(y, m) ==
    IF m = 2 THEN (IF is_leap(y) THEN 29 ELSE 28)
    ELSE IF m \in {4, 6, 9, 11} THEN 30 ELSE 31

days_before_year(y) ==
    (y - 1) * 365 + ((y - 1) \div 4) - ((y - 1) \div 100) + ((y - 1) \div 400)

RECURSIVE days_before_month(_, _)
days_before_month(y, m) ==
    IF m = 1 THEN 0
    ELSE days_before_month(y, m - 1) + days_in_month(y, m - 1)

date(y, m, d) == [year |-> y, month |-> m, day |-> d]

toordinal(d) ==
    days_before_year(d.year) + days_before_month(d.year, d.month) + d.day

month_of_day(y, n) ==
    CHOOSE m \in 1..12 :
        /\ days_before_month(y, m) < n
        /\ n <= days_before_month(y, m) + days_in_month(y, m)

day_of_year(y, n) ==
    date(y, month_of_day(y, n), n - days_before_month(y, month_of_day(y, n)))

fromordinal(n) ==
    LET y == CHOOSE yy \in CalendarYears :
                 days_before_year(yy) < n /\ n <= days_before_year(yy + 1)
    IN day_of_year(y, n - days_before_year(y))

\* d + timedelta(days=days)
plus_days(d, days) == fromordinal(toordinal(d) + days)

\* an Optional[date]
NoDate == [none |-> TRUE, year |-> 0, month |-> 0, day |-> 0]
SomeDate(d) == [none |-> FALSE, year |-> d.year, month |-> d.month, day |-> d.day]

\* ---------------------------------------------------------------------
\* utils/payment_terms_calculator.py
\* ---------------------------------------------------------------------
\* PaymentTermCategory (OTHER_TERM is its OTHER)
NET_DAYS == "net_days"
AMS_DAYS == "ams_days"
ADVANCE == "advance"
AFTER_EVENT == "after_event"
SPLIT_PAYMENT == "split_payment"
SPECIAL_DATE == "special_date"
OTHER_TERM == "other"

\* the tests of categorize_payment_term after the split test, on the upper
\* case of the name
category_of_upper(term_upper) ==
    IF contains(term_upper, <<"N", "E", "T">>) /\ contains(term_upper, <<"D", "A", "Y", "S">>)
    THEN NET_DAYS
    ELSE IF contains(term_upper, <<"A", "M", "S">>) THEN AMS_DAYS
    ELSE IF contains_any(term_upper, {<<"A", "D", "V", "A", "N", "C", "E">>, <<"C", "O", "D">>, <<"C", "I", "A">>, <<"P", "R", "E", "P", "A", "I", "D">>})
    THEN ADVANCE
    ELSE IF contains_any(term_upper, {<<"2", "5", "T", "H">>, <<"E", "O", "M">>, <<"M", "O", "A">>, <<"E", "N", "D", " ", "O", "F", " ", "M", "O", "N", "T", "H">>})
    THEN SPECIAL_DATE
    ELSE IF contains_any(term_upper, {<<"A", "F", "T", "E", "R">>, <<"B", "E", "F", "O", "R", "E">>, <<"U", "P", "O", "N">>})
    THEN AFTER_EVENT
    ELSE OTHER_TERM

\* the name has a '%' or a ':'
is_split(s) == contains(s, <<"%">>) \/ (contains(s, <<":">>) /\ count(s, ":") >= 1)

categorize_net_days_before_split(term_name, descr) ==
    IF term_name.isna THEN OTHER_TERM
    ELSE IF category_of_upper(upper(term_name.str)) = NET_DAYS THEN NET_DAYS
    ELSE IF is_split(term_name.str) THEN SPLIT_PAYMENT
    ELSE category_of_upper(upper(term_name.str))

categorize_payment_term(term_name, descr) ==
    IF term_name.isna THEN OTHER_TERM
    ELSE IF is_split(term_name.str) THEN SPLIT_PAYMENT
    ELSE category_of_upper(upper(term_name.str))

extract_days_from_net_term(term_name) ==
    IF term_name.isna THEN NoInt
    ELSE re_search(upper(term_name.str), <<"N", "E", "T">>, 1, TRUE)

extract_days_from_ams_term(term_name) ==
    IF term_name.isna THEN NoInt
    ELSE re_search(upper(term_name.str), <<"A", "M", "S">>, 1, TRUE)

first_of_next_month(inv_date) ==
    IF inv_date.month = 12 THEN date(inv_date.year + 1, 1, 1)
    ELSE date(inv_date.year, inv_date.month + 1, 1)

calculate_ams_due_date_from_invoice_date(inv_date, days) ==
    plus_days(inv_date, days)

calculate_ams_due_date(inv_date, days) ==
    plus_days(first_of_next_month(inv_date), days)

\* str(term_name): a missing name is formatted as the text None
str_of_term(term_name) == IF term_name.isna THEN <<"N", "o", "n", "e">> ELSE term_name.str

extract_final_payment_days(term_name, descr) ==
    re_findall_last(upper(join_with_space(str_of_term(term_name), descr)), <<"N", "E", "T">>, 1, TRUE)

\* what calculate_due_date returns, without the text of the explanation
DueDate(due, review) == [due_date |-> due, needs_manual_review |-> review]

due_after(inv_date, days, review) ==
    IF days.none THEN DueDate(NoDate, TRUE)
    ELSE DueDate(SomeDate(plus_days(inv_date, days.value)), review)

ams_due(inv_date, days) ==
    IF days.none THEN DueDate(NoDate, TRUE)
    ELSE DueDate(SomeDate(calculate_ams_due_date(inv_date, days.value)), FALSE)

split_due(inv_date, final_days) ==
    IF final_days.none THEN DueDate(SomeDate(plus_days(inv_date, 30)), TRUE)
    ELSE DueDate(SomeDate(plus_days(inv_date, final_days.value)), TRUE)

\* the 25th of this month, or of the next month after the 25th
due_on_25th(inv_date) ==
    IF inv_date.day <= 25 THEN date(inv_date.year, inv_date.month, 25)
    ELSE IF inv_date.month = 12 THEN date(inv_date.year + 1, 1, 25)
    ELSE date(inv_date.year, inv_date.month + 1, 25)

last_day_of_month(inv_date) ==
    IF inv_date.month = 12 THEN date(inv_date.year, 12, 31)
    ELSE plus_days(date(inv_date.year, inv_date.month + 1, 1), -1)

special_date_due(s, inv_date) ==
    IF contains(upper(s), <<"2", "5", "T", "H">>)
    THEN DueDate(SomeDate(due_on_25th(inv_date)), TRUE)
    ELSE IF contains(upper(s), <<"E", "O", "M">>)
    THEN due_after(last_day_of_month(inv_date), re_search(upper(s), <<"E", "O", "M">>, 0, FALSE), TRUE)
    ELSE IF contains(upper(s), <<"M", "O", "A">>)
    THEN due_after(inv_date, re_search(s, <<>>, 0, FALSE), TRUE)
    ELSE DueDate(NoDate, TRUE)

due_of_category(category, term_name, inv_date, descr) ==
    CASE category = NET_DAYS ->
            due_after(inv_date, extract_days_from_net_term(term_name), FALSE)
      [] category = AMS_DAYS ->
            ams_due(inv_date, extract_days_from_ams_term(term_name))
      [] category = ADVANCE -> DueDate(SomeDate(inv_date), FALSE)
      [] category = SPLIT_PAYMENT ->
            split_due(inv_date, extract_final_payment_days(term_name, descr))
      [] category = SPECIAL_DATE -> special_date_due(term_name.str, inv_date)
      [] OTHER -> DueDate(SomeDate(plus_days(inv_date, 30)), TRUE)

calculate_due_date(term_name, inv_date, descr) ==
    IF term_name.isna THEN DueDate(NoDate, TRUE)
    ELSE due_of_category(categorize_payment_term(term_name, descr), term_name, inv_date, descr)

or_30(days, extra) == IF days.none THEN 30 ELSE days.value + extra

days_of_category(category, term_name) ==
    CASE category = NET_DAYS -> or_30(extract_days_from_net_term(term_name), 0)
      [] category = AMS_DAYS -> or_30(extract_days_from_ams_term(term_name), 15)
      [] category = ADVANCE -> 0
      [] category = SPLIT_PAYMENT ->
            or_30(extract_final_payment_days(term_name, <<>>), 0)
      [] OTHER -> 30

\* payment_terms_calculator.calculate_days_from_term_name
calculator_days_from_term_name(term_name) ==
    IF term_name.isna THEN 30
    ELSE days_of_category(categorize_payment_term(term_name, <<>>), term_name)

\* ---------------------------------------------------------------------
\* utils/invoice_data.py: calculate_days_from_term_name
\* ---------------------------------------------------------------------
first_some(options) ==
    IF \E i \in 1..Len(options) : ~options[i].none
    THEN options[least({i \in 1..Len(options) : ~options[i].none})].value
    ELSE 30

plus_15(days) == IF days.none THEN NoInt ELSE SomeInt(days.value + 15)

days_of_stripped(s) ==
    IF contains_any(upper(s), {<<"C", "O", "D">>, <<"C", "I", "A">>, <<"T", "T", " ", "I", "N", " ", "A", "D", "V", "A", "N", "C", "E">>, <<"A", "D", "V", "A", "N", "C", "E">>, <<"P", "R", "E", "P", "A", "I", "D">>})
    THEN 0
    ELSE first_some(<<re_search(upper(s), <<"N", "E", "T">>, 1, FALSE),
                      plus_15(re_search(upper(s), <<"A", "M", "S">>, 1, FALSE)),
                      re_search(upper(s), <<>>, 0, TRUE),
                      re_search(s, <<>>, 0, FALSE)>>)

calculate_days_from_term_name(term_name) ==
    IF term_name.isna THEN 30 ELSE days_of_stripped(strip(term_name.str))

\* no payment term has been evaluated
NoTermResult ==
    [parsed |-> FALSE, category |-> OTHER_TERM, due |-> DueDate(NoDate, TRUE),
     calculator_days |-> 0, listed |-> FALSE, days |-> 0,
     shown |-> FALSE, due_date |-> NoDate, created |-> FALSE,
     header_due_date |-> NoDate]

NoTermCall ==
    /\ term = NaTerm
    /\ term_description = <<>>
    /\ term_date = date(2025, 1, 17)
    /\ term_result = NoTermResult

\* ---------------------------------------------------------------------
\* Amounts.  Unit costs and amounts are counted in hundredths of the
\* currency unit; an unrounded sum is a numerator over a denominator.
\* Floating point error is not modelled.
\* ---------------------------------------------------------------------
\* round(n / d, 2) in hundredths, for n >= 0 and d > 0; a tie goes to the
\* even hundredth
round_2(n, d) ==
    IF 2 * ((n * 100) % d) > d
          \/ (2 * ((n * 100) % d) = d /\ ((n * 100) \div d) % 2 = 1)
    THEN ((n * 100) \div d) + 1
    ELSE (n * 100) \div d

\* subtotal, total_vat and total_with_vat of the sums subtotal / d and
\* total_vat / d, "rounded only after summation"
rounded_totals(subtotal, total_vat, d, exchange_rate) ==
    [none |-> FALSE,
     exchange_rate |-> exchange_rate,
     subtotal |-> round_2(subtotal, d),
     total_vat |-> round_2(total_vat, d),
     total_with_vat |-> round_2(subtotal + total_vat, d)]

NoAmountTotals ==
    [none |-> TRUE, exchange_rate |-> NoRate, subtotal |-> 0, total_vat |-> 0,
     total_with_vat |-> 0]

\* InvoiceService.calculate_invoice_totals_with_vat(df): the quantity of a
\* line is row.get('true_remaining_qty', row['uninvoiced_quantity'])
totals_with_vat(df) ==
    rounded_totals(
        SumOver(DOMAIN df, [i \in DOMAIN df |->
            df[i].unit_cost * df[i].true_remaining_qty * 100]),
        SumOver(DOMAIN df, [i \in DOMAIN df |->
            df[i].unit_cost * df[i].true_remaining_qty * df[i].vat_percent]),
        10000, One)

\* the loop of get_invoice_amounts_in_currency: the quantity of a line is
\* row.get('uninvoiced_quantity', 0)
converted_totals(df, exchange_rate) ==
    rounded_totals(
        SumOver(DOMAIN df, [i \in DOMAIN df |->
            df[i].unit_cost * df[i].uninvoiced_quantity * exchange_rate.num * 100]),
        SumOver(DOMAIN df, [i \in DOMAIN df |->
            df[i].unit_cost * df[i].uninvoiced_quantity * exchange_rate.num
               * df[i].vat_percent]),
        10000 * exchange_rate.den, exchange_rate)

\* get_invoice_amounts_in_currency with the rate that its call of
\* get_latest_exchange_rate returned
amounts_in_currency(df, same_currency, rate) ==
    IF same_currency THEN converted_totals(df, One)
    ELSE IF rate.none THEN NoAmountTotals
    ELSE converted_totals(df, rate)

\* show_invoice_form, "Calculate totals"
form_amounts(df, same_currency, converted_amounts) ==
    IF ~same_currency /\ ~converted_amounts.none THEN converted_amounts
    ELSE totals_with_vat(df)

\* create_purchase_invoice, first pass: total_amount_exclude_vat over the
\* rows of details_df, whose uninvoiced_quantity is ad.arrival_quantity
total_amount_exclude_vat(df, po_to_invoice_rate) ==
    round_2(SumOver(DOMAIN df, [i \in DOMAIN df |->
                df[i].unit_cost * df[i].arrival_quantity * po_to_invoice_rate.num]),
            100 * po_to_invoice_rate.den)

amount_include_vat(amount_exclude_vat, vat_percent) ==
    round_2(amount_exclude_vat * (100 + vat_percent), 10000)

\* the detail row of a line with its rounded amount without VAT
detail_amounts(row, amount_exclude_vat, po_to_invoice_rate) ==
    [purchased_invoice_quantity |-> row.arrival_quantity,
     amount_exclude_vat |-> amount_exclude_vat,
     amount |-> amount_include_vat(amount_exclude_vat, row.vat_percent),
     vat_gst |-> row.vat_percent,
     exchange_rate |-> po_to_invoice_rate]

created_rows_trusting_total(df, total_invoiced_amount, po_to_invoice_rate) ==
    [header |->
        [total_invoiced_amount |-> total_invoiced_amount,
         total_invoiced_amount_exclude_vat |-> total_invoiced_amount],
     details |->
        [i \in DOMAIN df |->
            detail_amounts(df[i],
                round_2(df[i].unit_cost * df[i].arrival_quantity
                           * po_to_invoice_rate.num,
                        100 * po_to_invoice_rate.den),
                po_to_invoice_rate)]]

\* create_purchase_invoice: header and detail rows
created_rows(df, total_invoiced_amount, po_to_invoice_rate) ==
    [header |->
        [total_invoiced_amount |-> total_invoiced_amount,
         total_invoiced_amount_exclude_vat |->
             total_amount_exclude_vat(df, po_to_invoice_rate)],
     details |->
        [i \in DOMAIN df |->
            detail_amounts(df[i],
                round_2(df[i].unit_cost * df[i].arrival_quantity
                           * po_to_invoice_rate.num,
                        100 * po_to_invoice_rate.den),
                po_to_invoice_rate)]]

NoCreatedRows ==
    [header |-> [total_invoiced_amount |-> 0,
                 total_invoiced_amount_exclude_vat |-> 0],
     details |-> <<>>]

NoAmountResult ==
    [totalled |-> FALSE, totals_with_vat |-> NoAmountTotals,
     converted_amounts |-> NoAmountTotals, totals |-> NoAmountTotals,
     created |-> FALSE, via_wizard |-> FALSE, rows |-> NoCreatedRows]

\* no amount has been computed
NoAmounts ==
    /\ amt_lines = <<>>
    /\ amt_rate = [same_currency |-> TRUE, po_to_invoice_rate |-> One,
                   amounts_rate |-> One]
    /\ amt_result = NoAmountResult

\* ---------------------------------------------------------------------
\* Invoice management (invoice_data.update_invoice, delete_invoice)
\* ---------------------------------------------------------------------
\* whitelist of update_invoice
updatable_fields ==
    {"commercial_invoice_no", "invoiced_date", "due_date",
     "email_to_accountant", "modified_date"}

\* the keys of update_data that enter the SET clause
update_fields(update_data) == DOMAIN update_data \cap updatable_fields

\* the SET clause: the whitelisted keys with their values, and
\* modified_date = NOW() when update_data gives none
set_clause(update_data) ==
    [f \in update_fields(update_data) \cup {"modified_date"} |->
        IF f \in DOMAIN update_data THEN update_data[f] ELSE "NOW()"]

\* a row after UPDATE ... SET
row_after_set(row, assignments) ==
    [f \in DOMAIN row |->
        IF f \in DOMAIN assignments THEN assignments[f] ELSE row[f]]

\* UPDATE purchase_invoices SET ... WHERE id = :invoice_id AND delete_flag = 0
rows_matched(invoice_id) ==
    {r \in purchase_invoices : r.id = invoice_id /\ r.delete_flag = 0}

\* the UPDATE of a statement without the delete_flag condition
update_where_id(invoice_id, assignments) ==
    {IF r.id = invoice_id THEN row_after_set(r, assignments)
     ELSE r : r \in purchase_invoices}

update_where_not_deleted(invoice_id, assignments) ==
    {IF r \in rows_matched(invoice_id) THEN row_after_set(r, assignments)
     ELSE r : r \in purchase_invoices}

\* SELECT COUNT(*) FROM purchase_invoice_details
\* WHERE purchase_invoice_id = :invoice_id AND delete_flag = 0
detail_count(invoice_id) ==
    Cardinality({d \in purchase_invoice_details :
                    d.purchase_invoice_id = invoice_id /\ d.delete_flag = 0})

hard_delete_allowed_unchecked(n_details) == TRUE

\* hard delete goes on only when no detail row is counted
hard_delete_allowed(n_details) == ~(n_details > 0)

NoManageCall ==
    manage_call = [op |-> "none", invoice_id |-> 0, hard_delete |-> FALSE,
                   update_fields |-> {}, other_keys |-> {},
                   success |-> FALSE, message |-> "", calls |-> 0]

\* ---------------------------------------------------------------------
\* Concurrent wizard sessions
\* ---------------------------------------------------------------------
\* the browser sessions that use the wizard at the same time
SessionIds == {1, 2}

\* InvoiceState() of a session, with the invoice number of its preview
NewSession ==
    [wizard_step |-> "select", selected_ans |-> {}, po_result |-> NotCalled,
     is_advance_payment |-> FALSE, invoice_number |-> <<>>,
     last_create |-> "none"]

NoSessions == sessions = [s \in SessionIds |-> NewSession]

\* faulty variant: the PO level validation is run again before the rows
\* are written
create_gate_with_po_check(s, authenticated) ==
    /\ authenticated
    /\ validate_invoice_with_po_level(
          sessions[s].selected_ans,
          unique(sessions[s].selected_ans, "product_purchase_order_id")).can_invoice

\* create_invoice_final goes on to the upload and the database rows when
\* the user's keycloak id is found
create_gate(s, authenticated) == authenticated

\* SELECT MAX(id) FROM purchase_invoices, 0 for an empty table
last_id ==
    IF purchase_invoices = {} THEN 0
    ELSE CHOOSE n \in {r.id : r \in purchase_invoices} :
            \A r \in purchase_invoices : r.id <= n

\* 'A' if is_advance_payment else 'P'
suffix(is_advance_payment) == IF is_advance_payment THEN <<"A">> ELSE <<"P">>

\* the number made of the date, the two ids, a sequence and the suffix
invoice_number_text(date_str, vendor_id, buyer_id, seq, is_advance_payment) ==
    <<"V", "-", "I", "N", "V">> \o date_str \o <<"-">> \o str_of(vendor_id) \o str_of(buyer_id)
       \o seq \o <<"-">> \o suffix(is_advance_payment)

\* generate_invoice_number; db_ok: the MAX(id) query runs without an
\* exception; timestamp: '%H%M%S' of the clock
generate_invoice_number(date_str, vendor_id, buyer_id, is_advance_payment, db_ok, timestamp) ==
    IF db_ok
    THEN invoice_number_text(date_str, vendor_id, buyer_id,
                             str_of(last_id + 1), is_advance_payment)
    ELSE invoice_number_text(date_str, vendor_id, buyer_id, timestamp,
                             is_advance_payment)

\* purchase orders in USD, no stored exchange rate
UsdOrders == po_currency_code = "USD" /\ exchange_rates = {}

\* InvoiceState() defaults, empty invoice tables, empty bucket, empty rate
\* cache
InitSession ==
    /\ medias = {}
    /\ purchase_invoices = {}
    /\ purchase_invoice_details = {}
    /\ purchase_invoice_medias = {}
    /\ s3 = {}
    /\ selected_ans = {}
    /\ wizard_step = "select"
    /\ filters = NoFilters
    /\ hide_completed_po_lines = TRUE
    /\ selected_df = NoneDf
    /\ details_df = NoneDf
    /\ invoice_data = NoInvoiceData
    /\ invoice_creating = FALSE
    /\ uploaded_files = 0
    /\ summary = NoSummary
    /\ preview_form = FALSE
    /\ pc = "idle"
    /\ upload_idx = 0
    /\ upload_results = NoUploadResults
    /\ s3_keys_uploaded = <<>>
    /\ media_ids_created = <<>>
    /\ tx = EmptyTx
    /\ attempt = NoAttempt
    /\ _rate_cache = EmptyCache
    /\ _cache_expiry = EmptyCache
    /\ now = 0
    /\ resolved = NoCall
    /\ invoice_currency_code = None
    /\ state_exchange_rates = NoExchangeRates
    /\ invoice_totals = NoTotals
    /\ rates_valid = NotValidated

\* Catalogue scenarios: line 2 is of either vendor, all lines are of entity
\* E1 and Internal, the other lines of vendor V1; line i is on PO line
\* ((i-1) mod n)+1; one unit of line 1 is already invoiced.
Init ==
    /\ arrival_details \in [LineIds -> ArrivalRows]
    /\ \A i \in LineIds :
          /\ (i # 2 => arrival_details[i].vendor_code = "V1")
          /\ arrival_details[i].legal_entity_code = "E1"
          /\ arrival_details[i].vendor_type = "Internal"
          /\ OneTermOneVat({i})
          /\ arrival_details[i].product_purchase_order_id = ((i - 1) % NumPoLines) + 1
          /\ arrival_details[i].prior_invoiced = (IF i = 1 THEN MaxPrior ELSE 0)
    /\ product_purchase_orders \in [PoIds -> PoRows]
    /\ \A p \in PoIds :
          /\ product_purchase_orders[p].purchase_quantity = MaxPoQty
          /\ product_purchase_orders[p].legacy_invoice_qty = 0
    /\ UsdOrders
    /\ InitSession
    /\ NoTermCall
    /\ NoAmounts
    /\ NoManageCall
    /\ NoSessions

\* Quantity scenarios: one vendor, entity and vendor type; the ordered and
\* legacy quantities of PO line 1, the PO line of line 2 and the quantity
\* already invoiced from line 1 vary.
InitQty ==
    /\ arrival_details \in [LineIds -> ArrivalRows]
    /\ \A i \in LineIds :
          /\ arrival_details[i].vendor_code = "V1"
          /\ arrival_details[i].legal_entity_code = "E1"
          /\ arrival_details[i].vendor_type = "Internal"
          /\ (i # 2 => arrival_details[i].product_purchase_order_id = 1)
          /\ (i > 1 => arrival_details[i].prior_invoiced = 0)
          /\ OneTermOneVat({i})
    /\ product_purchase_orders \in [PoIds -> PoRows]
    /\ \A p \in PoIds :
          p > 1 => /\ product_purchase_orders[p].purchase_quantity = MaxPoQty
                   /\ product_purchase_orders[p].legacy_invoice_qty = 0
    /\ UsdOrders
    /\ InitSession
    /\ NoTermCall
    /\ NoAmounts
    /\ NoManageCall
    /\ NoSessions

\* Counterparty scenarios: lines 1 and 2 take any vendor, entity and vendor
\* type, line 2 any payment term and VAT rate, the other lines are
\* (V1, E1, Internal); quantities as in Init.
InitSel ==
    /\ arrival_details \in [LineIds -> ArrivalRows]
    /\ \A i \in LineIds :
          /\ (i # 2 => OneTermOneVat({i}))
          /\ (i > 2 => /\ arrival_details[i].vendor_code = "V1"
                       /\ arrival_details[i].legal_entity_code = "E1"
                       /\ arrival_details[i].vendor_type = "Internal")
          /\ arrival_details[i].product_purchase_order_id = ((i - 1) % NumPoLines) + 1
          /\ arrival_details[i].prior_invoiced = (IF i = 1 THEN MaxPrior ELSE 0)
    /\ product_purchase_orders \in [PoIds -> PoRows]
    /\ \A p \in PoIds :
          /\ product_purchase_orders[p].purchase_quantity = MaxPoQty
          /\ product_purchase_orders[p].legacy_invoice_qty = 0
    /\ UsdOrders
    /\ InitSession
    /\ NoTermCall
    /\ NoAmounts
    /\ NoManageCall
    /\ NoSessions

\* ---------------------------------------------------------------------
\* Step 1: selection (each interaction reruns the page, which renders the
\* selection summary again)
\* ---------------------------------------------------------------------
\* the wizard is used between creation attempts, for MaxAttempts attempts
Interactive == pc = "idle" /\ attempt.n < MaxAttempts

Rerender(sel, f) ==
    LET df == get_uninvoiced_ans(f)
    IN \E returned \in SUBSET unique(get_selected_dataframe(df, sel),
                                     "product_purchase_order_id") :
          summary' = show_selection_summary(df, sel, returned)

page_ids == display_an_results(get_uninvoiced_ans(filters), hide_completed_po_lines)

\* handle_selection_change of the row checkbox
handle_selection_change(row_id) ==
    /\ wizard_step = "select" /\ Interactive
    /\ row_id \in page_ids
    /\ selected_ans' = IF row_id \in selected_ans
                       THEN selected_ans \ {row_id}
                       ELSE selected_ans \cup {row_id}
    /\ Rerender(selected_ans', filters)
    /\ UNCHANGED <<dbVars, manageVars, sessVars, termVars, amtVars, rateVars, curVars, storeVars, wizard_step, filters,
                   hide_completed_po_lines, selected_df, details_df,
                   invoice_data, uploaded_files, preview_form,
                   invoice_creating, runVars>>

\* handle_select_all_change, checkbox ticked / unticked
handle_select_all_change(checked) ==
    /\ wizard_step = "select" /\ Interactive
    /\ page_ids # {}
    /\ selected_ans' = IF checked THEN selected_ans \cup page_ids
                       ELSE selected_ans \ page_ids
    /\ Rerender(selected_ans', filters)
    /\ UNCHANGED <<dbVars, manageVars, sessVars, termVars, amtVars, rateVars, curVars, storeVars, wizard_step, filters,
                   hide_completed_po_lines, selected_df, details_df,
                   invoice_data, uploaded_files, preview_form,
                   invoice_creating, runVars>>

\* show_filters: the vendor multiselect changes
show_filters(selected_vendors) ==
    /\ wizard_step = "select" /\ Interactive
    /\ selected_vendors # filters.vendors
    /\ filters' = [vendors |-> selected_vendors]
    /\ Rerender(selected_ans, filters')
    /\ UNCHANGED <<dbVars, manageVars, sessVars, termVars, amtVars, rateVars, curVars, storeVars, selected_ans, wizard_step,
                   hide_completed_po_lines, selected_df, details_df,
                   invoice_data, uploaded_files, preview_form,
                   invoice_creating, runVars>>

\* "Reset Filters": reset_filters, then the rerun reads the filter widgets
reset_filters ==
    /\ wizard_step = "select" /\ Interactive
    /\ selected_ans' = {}
    /\ filters' \in {NoFilters, filters}
    /\ Rerender(selected_ans', filters')
    /\ UNCHANGED <<dbVars, manageVars, sessVars, termVars, amtVars, rateVars, curVars, storeVars, wizard_step,
                   hide_completed_po_lines, selected_df, details_df,
                   invoice_data, uploaded_files, preview_form,
                   invoice_creating, runVars>>

\* "Hide Completed POs" checkbox
toggle_hide_completed ==
    /\ wizard_step = "select" /\ Interactive
    /\ hide_completed_po_lines' = ~hide_completed_po_lines
    /\ Rerender(selected_ans, filters)
    /\ UNCHANGED <<dbVars, manageVars, sessVars, termVars, amtVars, rateVars, curVars, storeVars, selected_ans, wizard_step, filters,
                   selected_df, details_df,
                   invoice_data, uploaded_files, preview_form,
                   invoice_creating, runVars>>

\* ---------------------------------------------------------------------
\* Step 2: preview
\* ---------------------------------------------------------------------
\* the last of the calls of get_latest_exchange_rate of a render
last_call(calls) == IF calls = <<>> THEN resolved ELSE calls[Len(calls)]

\* what show_currency_selection and show_invoice_form store
StoreRender(currency, r) ==
    /\ invoice_currency_code' = currency
    /\ state_exchange_rates' = r.rates
    /\ rates_valid' = r.rates_valid
    /\ invoice_totals' = r.totals
    /\ _rate_cache' = r.cache
    /\ _cache_expiry' = r.expiry
    /\ resolved' = last_call(r.calls)
    /\ UNCHANGED <<now, exchange_rates, po_currency_code>>

\* show_currency_selection and the totals of show_invoice_form, with the
\* currency the selectbox holds
ShowCurrencyAndTotals(currency, env) ==
    StoreRender(currency,
        render_currency_and_totals(po_currency_code, currency, _rate_cache,
            _cache_expiry, now, exchange_rates, env))

\* show_invoice_preview: loads the details of selected_ans and, with them,
\* shows the currency selection and the form
LoadPreview(currency, env) ==
    LET details == get_invoice_details(selected_ans)
    IN IF details = {}
       THEN /\ preview_form' = FALSE
            /\ UNCHANGED <<details_df, rateVars, curVars>>
       ELSE /\ preview_form' = TRUE
            /\ details_df' = Df(details)
            /\ ShowCurrencyAndTotals(currency, env)

\* "Proceed to Preview"
proceed_to_preview(env) ==
    /\ wizard_step = "select" /\ Interactive
    /\ summary.shown /\ summary.proceed
    /\ selected_df' = Df(summary.rows)
    /\ wizard_step' = "preview"
    /\ summary' = NoSummary
    /\ LoadPreview(default_currency(po_currency_code), env)
    /\ UNCHANGED <<dbVars, manageVars, sessVars, termVars, amtVars, storeVars, selected_ans, filters,
                   hide_completed_po_lines, invoice_data,
                   uploaded_files, invoice_creating, runVars>>

\* "Back" / "Back to Selection"
preview_back ==
    /\ wizard_step = "preview" /\ Interactive
    /\ wizard_step' = "select"
    /\ preview_form' = FALSE
    /\ Rerender(selected_ans, filters)
    /\ UNCHANGED <<dbVars, manageVars, sessVars, termVars, amtVars, rateVars, curVars, storeVars, selected_ans, filters,
                   hide_completed_po_lines, selected_df, details_df,
                   invoice_data, uploaded_files, invoice_creating, runVars>>

first_row(df) == CHOOSE i \in df.rows : \A j \in df.rows : i <= j

\* the invoice currency selectbox changes
select_invoice_currency(currency, env) ==
    /\ wizard_step = "preview" /\ Interactive
    /\ preview_form
    /\ currency # invoice_currency_code
    /\ ShowCurrencyAndTotals(currency, env)
    /\ UNCHANGED <<dbVars, manageVars, sessVars, termVars, amtVars, storeVars, wizVars, invoice_creating, runVars>>

\* "Review & Confirm": the page is rendered with the currency held by the
\* selectbox, then the form is taken over into invoice_data
review_and_confirm(env) ==
    /\ wizard_step = "preview" /\ Interactive
    /\ preview_form
    /\ ShowCurrencyAndTotals(invoice_currency_code, env)
    /\ invoice_data' =
         [none |-> FALSE,
          seller_id |-> arrival_details[first_row(details_df)].vendor_code,
          buyer_id |-> arrival_details[first_row(details_df)].legal_entity_code,
          total_invoiced_amount |-> invoice_totals',
          po_currency_code |-> po_currency_code,
          invoice_currency_code |-> invoice_currency_code',
          po_to_invoice_rate |-> get_po_to_invoice_rate(state_exchange_rates')]
    /\ wizard_step' = "confirm"
    /\ preview_form' = FALSE
    /\ uploaded_files' = 0
    /\ UNCHANGED <<dbVars, manageVars, sessVars, termVars, amtVars, storeVars, selected_ans, filters,
                   hide_completed_po_lines, selected_df, details_df,
                   summary, invoice_creating, runVars>>

\* ---------------------------------------------------------------------
\* Step 3: confirm
\* ---------------------------------------------------------------------
\* display_confirmation_line_items multiplies each unit cost by
\* invoice_data['po_to_invoice_rate'] when the currencies differ: with None
\* for the rate the render of the confirm step ends there, above the
\* attachments and the buttons
confirm_rendered ==
    \/ invoice_data.po_currency_code = invoice_data.invoice_currency_code
    \/ ~invoice_data.po_to_invoice_rate.none

\* "Back to Preview"
confirm_back(env) ==
    /\ wizard_step = "confirm" /\ Interactive
    /\ confirm_rendered
    /\ wizard_step' = "preview"
    /\ LoadPreview(default_currency(po_currency_code), env)
    /\ UNCHANGED <<dbVars, manageVars, sessVars, termVars, amtVars, storeVars, selected_ans, filters,
                   hide_completed_po_lines, selected_df, invoice_data,
                   uploaded_files, summary, invoice_creating, runVars>>

\* render_file_upload_section: the uploader holds n valid files
render_file_upload_section(n) ==
    /\ wizard_step = "confirm" /\ Interactive
    /\ confirm_rendered
    /\ n # uploaded_files
    /\ uploaded_files' = n
    /\ UNCHANGED <<dbVars, manageVars, sessVars, termVars, amtVars, rateVars, curVars, storeVars, selected_ans, wizard_step, filters,
                   hide_completed_po_lines, selected_df, details_df,
                   invoice_data, summary, preview_form, invoice_creating,
                   runVars>>


\* ---------------------------------------------------------------------
\* create_invoice_final
\* ---------------------------------------------------------------------
Range(seq) == {seq[k] : k \in 1..Len(seq)}

\* stage of the creation state machine the attempt is in
Stage ==
    CASE pc = "auth" -> "PENDING"
      [] pc \in {"s3_init", "upload", "uploaded"} -> "UPLOADING_ATTACHMENTS"
      [] pc = "media" -> "LINKING_MEDIA"
      [] pc \in {"tx_header", "tx_detail", "tx_links", "tx_commit"} -> "PERSISTING"
      [] OTHER -> IF attempt.outcome = "success" THEN "COMMITTED"
                  ELSE IF attempt.outcome = "failed" THEN "FAILED"
                  ELSE "NONE"

\* faulty variant: no finally clause, the flag keeps its value
finally_block_missing(flag) == flag

\* finally: state.invoice_creating = False
finally_block(flag) == FALSE

\* the function returns: its locals are gone, the finally clause has run
Return(att, outcome, flag) ==
    /\ pc' = "idle"
    /\ invoice_creating' = finally_block(flag)
    /\ upload_idx' = 0
    /\ upload_results' = NoUploadResults
    /\ s3_keys_uploaded' = <<>>
    /\ media_ids_created' = <<>>
    /\ tx' = EmptyTx
    /\ attempt' = [att EXCEPT !.outcome = outcome,
                              !.failed_from = IF outcome = "failed" THEN Stage ELSE "none"]

\* faulty variant: the batch counts as a success once a file is uploaded
batch_success_any_uploaded(results) == Len(results.uploaded) > 0

\* results['success'] = (results['error_count'] == 0)
batch_success(results) == results.error_count = 0

\* faulty variant: the clean-up stops after the first key
cleanup_first_key_only(s3_keys) ==
    IF s3_keys = <<>> THEN {} ELSE {s3_keys[1]}

\* the keys cleanup_failed_uploads calls delete_file for
cleanup_failed_uploads(s3_keys) == Range(s3_keys)

\* objects removed by the clean-up: delete_file works (delete_ok) or the
\* store refuses and the exception is swallowed
delete_file(s3_keys, delete_ok) == IF delete_ok THEN s3_keys ELSE {}

\* "Create Invoice" button: entry of create_invoice_final
create_invoice_final ==
    /\ wizard_step = "confirm"
    /\ ~invoice_data.none /\ ~details_df.none
    /\ confirm_rendered
    /\ IF invoice_creating
       THEN UNCHANGED <<invoice_creating, runVars>>
       ELSE /\ attempt.n < MaxAttempts
            /\ invoice_creating' = TRUE
            /\ pc' = "auth"
            /\ upload_idx' = 0
            /\ upload_results' = NoUploadResults
            /\ s3_keys_uploaded' = <<>>
            /\ media_ids_created' = <<>>
            /\ tx' = EmptyTx
            /\ attempt' = [NoAttempt EXCEPT
                              !.n = attempt.n + 1,
                              !.before = [invoices |-> purchase_invoices,
                                          details |-> purchase_invoice_details,
                                          links |-> purchase_invoice_medias]]
    /\ UNCHANGED <<dbVars, manageVars, sessVars, termVars, amtVars, rateVars, curVars, storeVars, wizVars>>

\* faulty variant: the invoice is written before the files are uploaded
stage_after_auth_persist_first(n_files) == "tx_header"

\* if state.uploaded_files: upload and link them first, else go on to
\* create_purchase_invoice
stage_after_auth(n_files) == IF n_files > 0 THEN "s3_init" ELSE "tx_header"

\* auth.get_user_keycloak_id()
get_user_keycloak_id(found) ==
    /\ pc = "auth"
    /\ IF ~found
       THEN Return(attempt, "failed", invoice_creating)
       ELSE /\ pc' = stage_after_auth(uploaded_files)
            /\ UNCHANGED <<invoice_creating, upload_idx, upload_results,
                           s3_keys_uploaded, media_ids_created, tx, attempt>>
    /\ UNCHANGED <<dbVars, manageVars, sessVars, termVars, amtVars, rateVars, curVars, storeVars, wizVars>>

\* S3Manager() and prepare_files_for_upload (an exception returns)
s3_manager_init(ok) ==
    /\ pc = "s3_init"
    /\ IF ~ok
       THEN Return(attempt, "failed", invoice_creating)
       ELSE /\ pc' = "upload"
            /\ upload_idx' = 1
            /\ UNCHANGED <<invoice_creating, upload_results,
                           s3_keys_uploaded, media_ids_created, tx, attempt>>
    /\ UNCHANGED <<dbVars, manageVars, sessVars, termVars, amtVars, rateVars, curVars, storeVars, wizVars>>

\* one iteration of the loop of batch_upload_invoice_files
upload_invoice_file(ok) ==
    /\ pc = "upload"
    /\ upload_idx <= uploaded_files
    /\ LET s3_key == <<attempt.n, upload_idx>>
       IN IF ok
          THEN /\ s3' = s3 \cup {s3_key}
               /\ upload_results' =
                    [upload_results EXCEPT !.uploaded = Append(@, s3_key)]
               /\ attempt' = [attempt EXCEPT !.keys = @ \cup {s3_key}]
          ELSE /\ upload_results' =
                    [upload_results EXCEPT !.error_count = @ + 1]
               /\ attempt' = [attempt EXCEPT !.upload_failed = TRUE]
               /\ UNCHANGED s3
    /\ upload_idx' = upload_idx + 1
    /\ pc' = IF upload_idx = uploaded_files THEN "uploaded" ELSE "upload"
    /\ UNCHANGED <<dbVars, manageVars, sessVars, termVars, amtVars, rateVars, curVars, medias, purchase_invoices, purchase_invoice_details,
                   purchase_invoice_medias, wizVars, invoice_creating,
                   s3_keys_uploaded, media_ids_created, tx>>

\* if not upload_results['success']: return
check_upload_results ==
    /\ pc = "uploaded"
    /\ IF ~batch_success(upload_results)
       THEN Return(attempt, "failed", invoice_creating)
       ELSE /\ s3_keys_uploaded' = upload_results.uploaded
            /\ pc' = "media"
            /\ UNCHANGED <<invoice_creating, upload_idx, upload_results,
                           media_ids_created, tx, attempt>>
    /\ UNCHANGED <<dbVars, manageVars, sessVars, termVars, amtVars, rateVars, curVars, storeVars, wizVars>>

\* save_media_records: one transaction inserting a row per key; on failure
\* the uploaded objects are cleaned up
save_media_records(ok, delete_ok) ==
    /\ pc = "media"
    /\ LET n == Len(s3_keys_uploaded)
           base == Cardinality(medias)
           att == [attempt EXCEPT !.db_write_attempted = TRUE]
       IN IF ok
          THEN /\ delete_ok
               /\ medias' = medias \cup
                     {[id |-> base + k, path |-> s3_keys_uploaded[k]] : k \in 1..n}
               /\ media_ids_created' = [k \in 1..n |-> base + k]
               /\ attempt' = [att EXCEPT !.media = {base + k : k \in 1..n}]
               /\ pc' = "tx_header"
               /\ UNCHANGED <<s3, invoice_creating, upload_idx, upload_results,
                              s3_keys_uploaded, tx>>
          ELSE /\ s3' = s3 \ delete_file(
                              cleanup_failed_uploads(s3_keys_uploaded), delete_ok)
               /\ Return([att EXCEPT !.deletes_issued =
                            cleanup_failed_uploads(s3_keys_uploaded)],
                      "failed", invoice_creating)
               /\ UNCHANGED medias
    /\ UNCHANGED <<dbVars, manageVars, sessVars, termVars, amtVars, rateVars, curVars, purchase_invoices, purchase_invoice_details,
                   purchase_invoice_medias, wizVars>>

\* create_purchase_invoice failed: rollback, then the else branch cleans up
PersistFailed(delete_ok) ==
    /\ s3' = s3 \ delete_file(cleanup_failed_uploads(s3_keys_uploaded), delete_ok)
    /\ Return([attempt EXCEPT !.db_write_attempted = TRUE,
                              !.deletes_issued =
                                  cleanup_failed_uploads(s3_keys_uploaded)],
              "failed", invoice_creating)
    /\ UNCHANGED <<dbVars, manageVars, sessVars, termVars, amtVars, rateVars, curVars, medias, purchase_invoices, purchase_invoice_details,
                   purchase_invoice_medias, wizVars>>

PersistStep(next_pc, next_tx) ==
    /\ pc' = next_pc
    /\ tx' = next_tx
    /\ attempt' = [attempt EXCEPT !.db_write_attempted = TRUE]
    /\ UNCHANGED <<dbVars, manageVars, sessVars, termVars, amtVars, rateVars, curVars, storeVars, wizVars, invoice_creating, upload_idx,
                   upload_results, s3_keys_uploaded, media_ids_created>>

new_invoice_id == Cardinality(purchase_invoices) + 1

\* the first pass over the lines (unit_cost * quantity *
\* po_to_invoice_rate raises with None for the rate), then
\* INSERT INTO purchase_invoices
insert_header(ok, delete_ok) ==
    /\ pc = "tx_header"
    /\ IF ok /\ ~invoice_data.po_to_invoice_rate.none
       THEN /\ delete_ok
            /\ PersistStep("tx_detail",
                 [tx EXCEPT !.header =
                    {[id |-> new_invoice_id,
                      seller_id |-> invoice_data.seller_id,
                      buyer_id |-> invoice_data.buyer_id,
                      po_currency_code |-> invoice_data.po_currency_code,
                      currency_code |-> invoice_data.invoice_currency_code,
                      total_invoiced_amount |->
                          invoice_data.total_invoiced_amount,
                      total_invoiced_amount_exclude_vat |->
                          [exchange_rate |-> invoice_data.po_to_invoice_rate]
                     ]}])
       ELSE PersistFailed(delete_ok)

detail_row(i) ==
    [purchase_invoice_id |-> new_invoice_id,
     arrival_detail_id |-> i,
     product_purchase_order_id |-> arrival_details[i].product_purchase_order_id,
     purchased_invoice_quantity |-> details_uninvoiced_quantity(i),
     exchange_rate |-> invoice_data.po_to_invoice_rate]

\* one iteration of the detail loop: VAT lookup and INSERT
insert_detail(ok, delete_ok) ==
    /\ pc = "tx_detail"
    /\ LET todo == details_df.rows \ {d.arrival_detail_id : d \in tx.details}
           i == CHOOSE r \in todo : \A q \in todo : r <= q
       IN IF ok
          THEN /\ delete_ok
               /\ PersistStep(
                    IF todo # {i} THEN "tx_detail"
                    ELSE IF media_ids_created # <<>> THEN "tx_links"
                    ELSE "tx_commit",
                    [tx EXCEPT !.details = @ \cup {detail_row(i)}])
          ELSE PersistFailed(delete_ok)

\* one iteration of the media-link loop
insert_media_link(ok, delete_ok) ==
    /\ pc = "tx_links"
    /\ LET k == Cardinality(tx.links) + 1
       IN IF ok
          THEN /\ delete_ok
               /\ PersistStep(
                    IF k < Len(media_ids_created) THEN "tx_links" ELSE "tx_commit",
                    [tx EXCEPT !.links = @ \cup
                        {[purchase_invoice_id |-> new_invoice_id,
                          media_id |-> media_ids_created[k]]}])
          ELSE PersistFailed(delete_ok)

\* StateManager.reset_wizard() (it also clears invoice_creating, which is
\* what the finally clause then sees), then st.rerun() renders the selection
\* step
reset_wizard ==
    /\ wizard_step' = "select"
    /\ selected_ans' = {}
    /\ invoice_data' = NoInvoiceData
    /\ details_df' = NoneDf
    /\ selected_df' = NoneDf
    /\ uploaded_files' = 0
    /\ summary' = NoSummary
    /\ preview_form' = FALSE
    /\ invoice_currency_code' = None
    /\ state_exchange_rates' = NoExchangeRates
    /\ invoice_totals' = NoTotals
    /\ UNCHANGED <<filters, hide_completed_po_lines, po_currency_code,
                   rates_valid>>

\* the transaction commits (engine.begin() exits) and success is reported
commit(ok, delete_ok) ==
    /\ pc = "tx_commit"
    /\ IF ok
       THEN /\ delete_ok
            /\ purchase_invoices' = purchase_invoices \cup tx.header
            /\ purchase_invoice_details' = purchase_invoice_details \cup tx.details
            /\ purchase_invoice_medias' = purchase_invoice_medias \cup tx.links
            /\ reset_wizard
            /\ Return([attempt EXCEPT !.db_write_attempted = TRUE], "success",
                      FALSE)
            /\ UNCHANGED <<dbVars, manageVars, sessVars, termVars, amtVars, rateVars, medias, s3>>
       ELSE PersistFailed(delete_ok)

CreateNext ==
    \/ create_invoice_final
    \/ \E found \in BOOLEAN : get_user_keycloak_id(found)
    \/ \E ok \in BOOLEAN : s3_manager_init(ok)
    \/ \E ok \in BOOLEAN : upload_invoice_file(ok)
    \/ check_upload_results
    \/ \E ok, delete_ok \in BOOLEAN : save_media_records(ok, delete_ok)
    \/ \E ok, delete_ok \in BOOLEAN : insert_header(ok, delete_ok)
    \/ \E ok, delete_ok \in BOOLEAN : insert_detail(ok, delete_ok)
    \/ \E ok, delete_ok \in BOOLEAN : insert_media_link(ok, delete_ok)
    \/ \E ok, delete_ok \in BOOLEAN : commit(ok, delete_ok)

\* the vendor multiselect holds nothing or one vendor
VendorChoices == {{}} \cup {{v} : v \in Vendors}

SelectNext ==
    \/ \E i \in LineIds : handle_selection_change(i)
    \/ \E b \in BOOLEAN : handle_select_all_change(b)
    \/ \E f \in VendorChoices : show_filters(f)
    \/ reset_filters

\* with PO lines that can be fully invoiced the "Hide Completed POs"
\* checkbox changes what the table offers
SelectQtyNext ==
    \/ SelectNext
    \/ toggle_hide_completed

WizardNext ==
    \/ \E env \in render_envs(po_currency_code,
                               default_currency(po_currency_code)) :
          proceed_to_preview(env)
    \/ preview_back
    \/ \E env \in render_envs(po_currency_code, invoice_currency_code) :
          review_and_confirm(env)
    \/ \E env \in render_envs(po_currency_code,
                               default_currency(po_currency_code)) :
          confirm_back(env)
    \/ \E n \in 0..MaxFiles : render_file_upload_section(n)

Next == SelectNext \/ WizardNext \/ CreateNext

Spec == Init /\ [][Next]_vars

\* the selection step alone, over the quantity scenarios
SpecQty == InitQty /\ [][SelectQtyNext]_vars

\* the selection step alone, over the counterparty scenarios
SpecSel == InitSel /\ [][SelectNext]_vars

\* ---------------------------------------------------------------------
\* Exchange-rate resolution on its own: calls of get_latest_exchange_rate
\* at successive times, over every table of stored rates
\* ---------------------------------------------------------------------
InitRate ==
    /\ arrival_details = [i \in LineIds |->
          [vendor_code |-> "V1", legal_entity_code |-> "E1",
           vendor_type |-> "Internal", product_purchase_order_id |-> 1,
           arrival_quantity |-> BaseArrivalQty, prior_invoiced |-> 0,
           payment_term |-> "T1", vat_percent |-> 10]]
    /\ product_purchase_orders = [p \in PoIds |->
          [purchase_quantity |-> MaxPoQty, legacy_invoice_qty |-> 0]]
    /\ po_currency_code = "USD"
    /\ exchange_rates \in ExchangeRateTables
    /\ InitSession
    /\ NoTermCall
    /\ NoAmounts
    /\ NoManageCall
    /\ NoSessions

\* one call get_latest_exchange_rate(from_currency, to_currency)
call_get_latest_exchange_rate(from_currency, to_currency, api, db_ok) ==
    LET call == get_latest_exchange_rate(from_currency, to_currency,
                    _rate_cache, _cache_expiry, now, exchange_rates, api,
                    db_ok)
    IN /\ resolved' = call
       /\ _rate_cache' = call.cache
       /\ _cache_expiry' = call.expiry
       /\ UNCHANGED <<now, exchange_rates, dbVars, manageVars, sessVars, termVars, amtVars, storeVars, wizVars,
                      invoice_creating, runVars, curVars>>

\* half an hour passes
tick ==
    /\ now < MaxClock
    /\ now' = now + 1
    /\ UNCHANGED <<_rate_cache, _cache_expiry, exchange_rates, resolved,
                   dbVars, manageVars, sessVars, termVars, amtVars, storeVars, wizVars, invoice_creating, runVars,
                   curVars>>

RateNext ==
    \/ \E from_currency, to_currency \in Currencies, api \in ApiAnswers,
          db_ok \in BOOLEAN :
          call_get_latest_exchange_rate(from_currency, to_currency, api, db_ok)
    \/ tick

SpecRate == InitRate /\ [][RateNext]_vars

\* ---------------------------------------------------------------------
\* The wizard with a choice of the invoice currency: orders in USD or VND,
\* one stored rate at most, one vendor, no attachment
\* ---------------------------------------------------------------------
InitFx ==
    /\ arrival_details = [i \in LineIds |->
          [vendor_code |-> "V1", legal_entity_code |-> "E1",
           vendor_type |-> "Internal",
           product_purchase_order_id |-> ((i - 1) % NumPoLines) + 1,
           arrival_quantity |-> BaseArrivalQty, prior_invoiced |-> 0,
           payment_term |-> "T1", vat_percent |-> 10]]
    /\ product_purchase_orders = [p \in PoIds |->
          [purchase_quantity |-> MaxPoQty, legacy_invoice_qty |-> 0]]
    /\ po_currency_code \in Currencies
    /\ exchange_rates \in {t \in ExchangeRateTables :
                              /\ Cardinality(t) <= 1
                              /\ \A r \in t : r.rate_value = 2
                                              /\ r.delete_flag = 0}
    /\ InitSession
    /\ NoTermCall
    /\ NoAmounts
    /\ NoManageCall
    /\ NoSessions

FxNext ==
    \/ \E b \in BOOLEAN : handle_select_all_change(b)
    \/ \E env \in RenderEnvs : proceed_to_preview(env)
    \/ \E currency \in Currencies, env \in RenderEnvs :
          select_invoice_currency(currency, env)
    \/ preview_back
    \/ \E env \in RenderEnvs : review_and_confirm(env)
    \/ \E env \in RenderEnvs : confirm_back(env)
    \/ create_invoice_final
    \/ \E found \in BOOLEAN : get_user_keycloak_id(found)
    \/ \E ok, delete_ok \in BOOLEAN : insert_header(ok, delete_ok)
    \/ \E ok, delete_ok \in BOOLEAN : insert_detail(ok, delete_ok)
    \/ \E ok, delete_ok \in BOOLEAN : commit(ok, delete_ok)

SpecFx == InitFx /\ [][FxNext]_vars



\* ---------------------------------------------------------------------
\* Properties
\* ---------------------------------------------------------------------
\* rows of the attempt that reached the invoice tables
persisted_by_attempt ==
    (purchase_invoices \ attempt.before.invoices)
      \cup (purchase_invoice_details \ attempt.before.details)
      \cup (purchase_invoice_medias \ attempt.before.links)

\* C1: every media record's path names an object that is still in the object
\* store, and once an attempt has ended in failure none of the media records
\* it created remains.
C1_MediaRecordsNameStoredObjects ==
    /\ \A m \in medias : m.path \in s3
    /\ (pc = "idle" /\ attempt.outcome = "failed") =>
           \A m \in medias : m.id \notin attempt.media

\* C2: every detail row that gets persisted carries a quantity no larger than
\* the true remaining quantity of its arrival line,
\* max(0, min(uninvoiced, PO remaining)), as it stands when the row is written.
C2_InvoicedWithinTrueRemaining ==
    [][\A d \in purchase_invoice_details' \ purchase_invoice_details :
          d.purchased_invoice_quantity <= true_remaining_qty(d.arrival_detail_id)]_vars

\* vendor code, legal entity and vendor type are each single-valued over rows
one_counterparty(rows) ==
    /\ Cardinality({arrival_details[i].vendor_code : i \in rows}) <= 1
    /\ Cardinality({arrival_details[i].legal_entity_code : i \in rows}) <= 1
    /\ Cardinality({arrival_details[i].vendor_type : i \in rows}) <= 1

\* C3: the lines of a committed invoice share one vendor code, one legal
\* entity and one vendor type, and the lines loaded for the preview are
\* exactly the lines that were validated in the selection step.
C3_InvoiceLinesAreTheValidatedLines ==
    /\ \A inv \in purchase_invoices :
          one_counterparty({d.arrival_detail_id :
              d \in {x \in purchase_invoice_details :
                        x.purchase_invoice_id = inv.id}})
    /\ (wizard_step \in {"preview", "confirm"} /\ ~details_df.none
          /\ ~selected_df.none) => details_df.rows = selected_df.rows

\* C4: when every file was uploaded and a later stage (the media records or a
\* statement of the invoice transaction) fails, the attempt ends with no
\* header, detail or media-link row persisted for it and with a delete issued
\* for every key it uploaded.
C4_LateFailureLeavesNoInvoiceAndDeletesUploads ==
    (pc = "idle" /\ attempt.outcome = "failed"
       /\ attempt.failed_from \in {"LINKING_MEDIA", "PERSISTING"}) =>
        /\ persisted_by_attempt = {}
        /\ attempt.deletes_issued = attempt.keys

\* a failure in the invoice transaction after two files were uploaded
C4_Witness ==
    /\ pc = "idle" /\ attempt.outcome = "failed"
    /\ attempt.failed_from = "PERSISTING"
    /\ Cardinality(attempt.keys) = 2
    /\ attempt.deletes_issued = attempt.keys
    /\ attempt.media # {}

\* C5: once a file of the batch has failed to upload, the attempt creates no
\* media record, attempts no database write and persists no invoice row, and
\* it ends in failure.
C5_UploadFailureStopsBeforeAnyDatabaseWrite ==
    attempt.upload_failed =>
        /\ attempt.media = {}
        /\ ~attempt.db_write_attempted
        /\ persisted_by_attempt = {}
        /\ tx = EmptyTx
        /\ pc \in {"idle", "upload", "uploaded"}
        /\ (pc = "idle" => attempt.outcome = "failed")

\* one file uploaded, another failed, the attempt is over
C5_Witness ==
    /\ pc = "idle" /\ attempt.outcome = "failed"
    /\ attempt.upload_failed
    /\ attempt.keys # {}
    /\ attempt.failed_from = "UPLOADING_ATTACHMENTS"

\* the steps of the creation state machine
StageSteps ==
    {<<"NONE", "PENDING">>, <<"FAILED", "PENDING">>, <<"COMMITTED", "PENDING">>,
     <<"PENDING", "UPLOADING_ATTACHMENTS">>, <<"PENDING", "PERSISTING">>,
     <<"PENDING", "FAILED">>,
     <<"UPLOADING_ATTACHMENTS", "LINKING_MEDIA">>,
     <<"UPLOADING_ATTACHMENTS", "FAILED">>,
     <<"LINKING_MEDIA", "PERSISTING">>, <<"LINKING_MEDIA", "FAILED">>,
     <<"PERSISTING", "COMMITTED">>, <<"PERSISTING", "FAILED">>}

\* every attached file has its object in the store and its media record
attachments_linked ==
    /\ Len(media_ids_created) = uploaded_files
    /\ Len(s3_keys_uploaded) = uploaded_files
    /\ \A k \in 1..uploaded_files :
          /\ s3_keys_uploaded[k] \in s3
          /\ [id |-> media_ids_created[k], path |-> s3_keys_uploaded[k]] \in medias

\* C6: an attempt goes through its stages in the fixed order uploads, media
\* records, invoice transaction (header, then details, then media links); the
\* transaction begins only when every upload and every media record is done,
\* invoice rows appear only at the commit, all together, and success is
\* reported only with the commit.
C6_StageOrder ==
    [][/\ (Stage' # Stage => <<Stage, Stage'>> \in StageSteps)
       /\ (Stage' = "LINKING_MEDIA" =>
              /\ Len(s3_keys_uploaded') = uploaded_files
              /\ Range(s3_keys_uploaded') \subseteq s3')
       /\ (Stage' = "PERSISTING" => attachments_linked')
       /\ (tx'.details # {} => tx'.header # {})
       /\ (tx'.links # {} =>
              {d.arrival_detail_id : d \in tx'.details} = details_df.rows)
       /\ (tx' # EmptyTx => Stage' = "PERSISTING")
       /\ (<<purchase_invoices', purchase_invoice_details',
             purchase_invoice_medias'>>
             # <<purchase_invoices, purchase_invoice_details,
                 purchase_invoice_medias>> =>
              /\ Stage = "PERSISTING" /\ Stage' = "COMMITTED"
              /\ tx.header # {}
              /\ purchase_invoices' = purchase_invoices \cup tx.header
              /\ purchase_invoice_details' = purchase_invoice_details \cup tx.details
              /\ purchase_invoice_medias' = purchase_invoice_medias \cup tx.links)
       /\ (Stage' = "COMMITTED" /\ Stage # "COMMITTED" =>
              tx.header \subseteq purchase_invoices')
      ]_vars

\* an invoice with two attachments committed
C6_Witness ==
    /\ Stage = "COMMITTED"
    /\ Cardinality(attempt.media) = 2
    /\ Cardinality(purchase_invoice_medias \ attempt.before.links) = 2
    /\ purchase_invoices # attempt.before.invoices

\* C7: invoice_creating is true exactly while an attempt is executing: it is
\* set on entry, an entry while it is true starts nothing and changes
\* nothing, and every way out of the attempt leaves it false.
C7_CreatingFlagGuardsTheAttempt ==
    [][/\ (invoice_creating' <=> pc' # "idle")
       /\ (invoice_creating => /\ attempt'.n = attempt.n
                               /\ pc' # "auth")
       /\ (pc = "idle" /\ pc' # "idle" =>
              pc' = "auth" /\ attempt'.n = attempt.n + 1)
      ]_vars

\* an attempt that ran with the flag set has ended in failure, flag cleared
C7_Witness ==
    /\ pc = "idle" /\ attempt.outcome = "failed"
    /\ attempt.failed_from = "PERSISTING"
    /\ ~invoice_creating

\* C8: for every row of the selection dataframe the true remaining quantity
\* is max(0, min(uninvoiced, PO pending)): it is never negative and never
\* above the uninvoiced quantity of the line, also when the PO line is
\* over-invoiced and its pending quantity is negative.
C8_TrueRemainingIsClampedMinimum ==
    summary.shown =>
        \A i \in summary.rows :
            LET r == summary.df[i]
            IN /\ r.true_remaining_qty >= 0
               /\ r.true_remaining_qty <= r.uninvoiced_quantity
               /\ r.true_remaining_qty =
                    (IF r.po_line_pending_invoiced_qty <= 0 THEN 0
                     ELSE IF r.po_line_pending_invoiced_qty < r.uninvoiced_quantity
                          THEN r.po_line_pending_invoiced_qty
                          ELSE r.uninvoiced_quantity)

\* a selected line whose PO line is over-invoiced shows a true quantity of 0
C8_Witness ==
    /\ summary.shown
    /\ \E i \in summary.rows :
          /\ summary.df[i].po_line_pending_invoiced_qty < 0
          /\ summary.df[i].uninvoiced_quantity > 0
          /\ summary.df[i].true_remaining_qty = 0

\* quantity selected on a PO line, from the rows of the summary
summary_selected(p) ==
    SumOver({i \in summary.rows : summary.df[i].product_purchase_order_id = p},
            [i \in LineIds |-> IF i \in summary.rows
                               THEN summary.df[i].uninvoiced_quantity ELSE 0])

\* PO lines of the selection that have a row in the PO summary
summary_po_lines ==
    {p \in summary.po_summary :
        \E i \in summary.rows : summary.df[i].product_purchase_order_id = p}

\* C9: the PO-level validation blocks the selection with the "exceeds PO
\* remaining quantity" error exactly when, for some PO line that has a summary
\* row, the selected quantity is above 110% of the remaining quantity; a
\* selection at exactly 110% passes, and with nothing remaining every positive
\* selected quantity is blocked.
C9_BlockedExactlyAbove110Percent ==
    (summary.shown /\ summary.po_called) =>
        /\ (~summary.po_result.can_invoice <=>
               \E p \in summary_po_lines :
                   10 * summary_selected(p) > 11 * po_remaining_qty(p))
        /\ (~summary.po_result.can_invoice <=>
               summary.po_result.error = "Selection exceeds PO remaining quantity")
        /\ (summary.po_result.can_invoice =>
               \A p \in summary_po_lines :
                   /\ 10 * summary_selected(p) <= 11 * po_remaining_qty(p)
                   /\ (po_remaining_qty(p) <= 0 => summary_selected(p) <= 0))
        /\ summary.proceed = summary.po_result.can_invoice

\* a selection at exactly 110% of the remaining quantity of its PO line passes
C9_Witness ==
    /\ summary.shown /\ summary.po_called
    /\ summary.po_result.can_invoice
    /\ \E p \in summary_po_lines :
          /\ po_remaining_qty(p) > 0
          /\ 10 * summary_selected(p) = 11 * po_remaining_qty(p)

\* the selection is fit for one invoice: not empty, one vendor, one legal
\* entity, one vendor type
fit_for_one_invoice(rows) ==
    /\ rows # {}
    /\ \A i, j \in rows :
          /\ arrival_details[i].vendor_code = arrival_details[j].vendor_code
          /\ arrival_details[i].legal_entity_code = arrival_details[j].legal_entity_code
          /\ arrival_details[i].vendor_type = arrival_details[j].vendor_type

\* C10: a selection fails validation exactly when it is empty or spans more
\* than one vendor, legal entity or vendor type; validate_invoice_selection
\* and the basic checks of validate_invoice_with_po_level give the same
\* verdict on every selection, and a selection with two vendor codes ends in
\* the multiple-vendors error in both.
C10_SelectionValidationVerdict ==
    /\ \A rows \in SUBSET LineIds :
          /\ validate_invoice_selection(rows).is_valid <=> fit_for_one_invoice(rows)
          /\ (po_level_basic(rows) = None) <=> fit_for_one_invoice(rows)
          /\ (\E i, j \in rows :
                 arrival_details[i].vendor_code # arrival_details[j].vendor_code) =>
                 /\ validate_invoice_selection(rows).error_msg
                        = "Multiple vendors selected"
                 /\ po_level_basic(rows) = "Multiple vendors selected"
    /\ summary.shown =>
          /\ summary.is_valid <=> fit_for_one_invoice(summary.rows)
          /\ summary.po_called => summary.po_result.error \in
                 {None, "Selection exceeds PO remaining quantity"}

\* lines of two vendors are selected and rejected
C10_Witness ==
    /\ summary.shown /\ ~summary.is_valid
    /\ summary.error_msg = "Multiple vendors selected"
    /\ Cardinality(summary.rows) >= 2

\* PO lines of the rows of the summary
summary_all_po_lines ==
    {summary.df[i].product_purchase_order_id : i \in summary.rows}

\* C11: warning conditions never block. For a selection of one vendor,
\* entity and vendor type whose quantity per PO line is at most 110% of the
\* remaining quantity, can_invoice is true and a warning is recorded for
\* each of: legacy invoiced quantity on a PO line, selected quantity above
\* 90% of remaining, more than one payment term, more than one VAT rate.
C11_WarningsNeverBlockAndAreRecorded ==
    (summary.shown /\ summary.po_called
       /\ \A p \in summary_all_po_lines :
             10 * summary_selected(p) <= 11 * po_remaining_qty(p)) =>
        LET w == summary.po_result.warnings
        IN /\ summary.po_result.can_invoice
           /\ \A p \in summary_all_po_lines :
                 /\ product_purchase_orders[p].legacy_invoice_qty > 0 =>
                       \E x \in w : x[1] \in {"legacy", "has_legacy_invoices"}
                 /\ 10 * summary_selected(p) > 9 * po_remaining_qty(p) =>
                       <<"near_limit", p>> \in w
           /\ Cardinality({arrival_details[i].payment_term :
                             i \in summary.rows} \ {None}) > 1 =>
                 <<"payment_terms", 0>> \in w
           /\ Cardinality({arrival_details[i].vat_percent :
                             i \in summary.rows}) > 1 =>
                 <<"vat_rates", 0>> \in w
           /\ (w # {} => summary.po_result.has_warnings)

\* ---------------------------------------------------------------------
\* Exchange rates
\* ---------------------------------------------------------------------
\* the step is a call of get_latest_exchange_rate (the clock stands still)
rate_call_step == now' = now

cache_unchanged == _rate_cache' = _rate_cache /\ _cache_expiry' = _cache_expiry

\* the entries of every key but this one are what they were
only_key_written(key) ==
    /\ DOMAIN _rate_cache' = DOMAIN _rate_cache \cup {key}
    /\ DOMAIN _cache_expiry' = DOMAIN _cache_expiry \cup {key}
    /\ \A k \in DOMAIN _rate_cache \ {key} : _rate_cache'[k] = _rate_cache[k]
    /\ \A k \in DOMAIN _cache_expiry \ {key} :
          _cache_expiry'[k] = _cache_expiry[k]

\* C12: the rate cache is written only by a call for two different
\* currencies that the API answered with a rate (and then only the entry of
\* that ordered pair, with the rate returned); a call for one currency
\* returns exactly 1.0 and neither reads or writes the cache nor calls the
\* API or the database; a call answered by the database fallback, with a
\* direct or an inverse rate or with no rate, leaves the cache as it was, so
\* that a later call for the pair, with nothing valid in the cache and an
\* API key, calls the API again.
C12_CacheHoldsOnlyApiRates ==
    [][rate_call_step =>
        LET c == resolved'
            key == cache_key(c.from_currency, c.to_currency)
        IN /\ ~cache_unchanged =>
                 /\ c.from_currency # c.to_currency
                 /\ c.api_called /\ c.api_success /\ ~c.result.none
                 /\ ~c.db_called /\ ~c.cache_hit
                 /\ only_key_written(key)
                 /\ _rate_cache'[key] = c.result
           /\ c.from_currency = c.to_currency =>
                 /\ c.result = One
                 /\ ~c.cache_hit /\ ~c.api_called /\ ~c.db_called
                 /\ cache_unchanged
           /\ c.db_called => cache_unchanged
           /\ (/\ c.from_currency # c.to_currency
               /\ c.api_key
               /\ ~(/\ key \in DOMAIN _rate_cache
                    /\ _cache_expiry[key] > now)) => c.api_called
    ]_vars

\* a call answered from the database while the other pair is cached and
\* this pair is not
C12_Witness ==
    /\ resolved.db_called /\ ~resolved.result.none
    /\ DOMAIN _rate_cache # {}
    /\ cache_key(resolved.from_currency, resolved.to_currency)
          \notin DOMAIN _rate_cache

\* the live rows of an ordered pair and the latest of them
live_rows(from_curr, to_curr) ==
    {r \in exchange_rates : /\ r.from_currency_code = from_curr
                            /\ r.to_currency_code = to_curr
                            /\ r.delete_flag = 0}

most_recent(rows) == CHOOSE r \in rows : \A q \in rows : q.rate_date <= r.rate_date

\* C13: a call that finds nothing valid in the cache and gets no rate from
\* the API (no key, HTTP error, transport error, success = false, null
\* result) returns the most recent non-deleted stored rate of the direct
\* pair if there is one, otherwise 1/r for the most recent non-deleted rate
\* r of the inverse pair if r > 0, otherwise no rate; a failing database
\* gives no rate instead of an exception; and no rate returned comes from a
\* stored rate that is zero or negative.
C13_DatabaseFallbackRate ==
    resolved.db_called =>
        LET direct == live_rows(resolved.from_currency, resolved.to_currency)
            inverse == live_rows(resolved.to_currency, resolved.from_currency)
        IN /\ resolved.db_raised => resolved.result = NoRate
           /\ ~resolved.db_raised =>
                 resolved.result =
                    IF direct # {} THEN Rate(most_recent(direct).rate_value, 1)
                    ELSE IF inverse # {} /\ most_recent(inverse).rate_value > 0
                         THEN Rate(1, most_recent(inverse).rate_value)
                    ELSE NoRate
           /\ ~resolved.result.none =>
                 resolved.result.num > 0 /\ resolved.result.den > 0

\* the same with a positive latest direct rate or none
FallbackRateWithPositiveDirectRate ==
    (resolved.db_called /\ ~resolved.db_raised) =>
        LET direct == live_rows(resolved.from_currency, resolved.to_currency)
        IN (direct # {} => most_recent(direct).rate_value > 0)
              => C13_DatabaseFallbackRate

\* C14: a rate fetched from the API for the ordered pair (A, B) by a call
\* made at time t is cached until t + 1 hour: every call for (A, B) strictly
\* before that time returns the cached rate and calls neither the API nor
\* the database; a call at or after that time does not use the entry, calls
\* the API again (an API key being set) and, when the API gives no rate,
\* returns what the database fallback gives; a call is answered from the
\* cache only by the entry of its own ordered pair.
C14_CacheEntryLivesOneHour ==
    [][rate_call_step =>
        LET c == resolved'
            key == cache_key(c.from_currency, c.to_currency)
            cached == key \in DOMAIN _rate_cache /\ key \in DOMAIN _cache_expiry
        IN /\ ~cache_unchanged =>
                 _cache_expiry'[key] = now + 1 * TicksPerHour
           /\ c.from_currency # c.to_currency =>
              /\ (cached /\ now < _cache_expiry[key]) =>
                    /\ c.cache_hit /\ c.result = _rate_cache[key]
                    /\ ~c.api_called /\ ~c.db_called
              /\ (cached /\ now >= _cache_expiry[key]) =>
                    /\ ~c.cache_hit
                    /\ c.api_key => c.api_called
                    /\ ~(c.api_success /\ ~c.result.none) =>
                          /\ c.db_called
                          /\ c.result = get_rate_from_database(exchange_rates,
                                 c.from_currency, c.to_currency, ~c.db_raised)
              /\ c.cache_hit => cached /\ now < _cache_expiry[key]
    ]_vars

\* a call an hour or more after the fetch, with the API failing, answered
\* by the database while the expired entry is still in the cache
C14_Witness ==
    LET key == cache_key(resolved.from_currency, resolved.to_currency)
    IN /\ resolved.api_called /\ resolved.db_called /\ ~resolved.result.none
       /\ key \in DOMAIN _rate_cache
       /\ _cache_expiry[key] <= now
       /\ _rate_cache[key] # resolved.result

\* the invoice is in another currency than the purchase order
converting(row) == row.po_currency_code # row.invoice_currency_code

\* C15: with an invoice currency other than the PO currency and no rate
\* from the PO currency to the invoice currency, no invoice is committed
\* whose total or line amounts were computed with the rate 1.0 (or with no
\* rate), and a creation attempt made with invoice data that hold no rate
\* ends in failure with nothing written to the invoice tables.
C15_NoInvoiceAtRateOneWithoutRate ==
    /\ \A h \in purchase_invoices :
          h.po_currency_code # h.currency_code =>
             /\ ~h.total_invoiced_amount.exchange_rate.none
             /\ h.total_invoiced_amount.exchange_rate # One
             /\ ~h.total_invoiced_amount_exclude_vat.exchange_rate.none
             /\ h.total_invoiced_amount_exclude_vat.exchange_rate # One
             /\ \A d \in purchase_invoice_details :
                   d.purchase_invoice_id = h.id =>
                      ~d.exchange_rate.none /\ d.exchange_rate # One
    /\ (/\ ~invoice_data.none
        /\ converting(invoice_data)
        /\ invoice_data.po_to_invoice_rate.none) =>
           /\ tx = EmptyTx
           /\ attempt.outcome # "success"
           /\ purchase_invoices = {} /\ purchase_invoice_details = {}

\* the same for the invoices whose totals in the form were converted:
\* the rate of the lines is the rate that was resolved
NoInvoiceWithoutResolvedRate ==
    /\ \A h \in purchase_invoices :
          h.po_currency_code # h.currency_code =>
             /\ ~h.total_invoiced_amount_exclude_vat.exchange_rate.none
             /\ h.total_invoiced_amount_exclude_vat.exchange_rate # One
             /\ \A d \in purchase_invoice_details :
                   d.purchase_invoice_id = h.id =>
                      ~d.exchange_rate.none /\ d.exchange_rate # One
    /\ (/\ ~invoice_data.none
        /\ converting(invoice_data)
        /\ invoice_data.po_to_invoice_rate.none) =>
           /\ pc = "idle" /\ attempt.n = 0
           /\ purchase_invoices = {} /\ purchase_invoice_details = {}

\* the verdict of validate_exchange_rates stored by the last render
verdict_of_last_render ==
    ~state_exchange_rates.none =>
       /\ rates_valid.is_valid =
             ~(/\ po_currency_code # invoice_currency_code
               /\ state_exchange_rates.po_to_invoice_rate.none)
       /\ (/\ invoice_currency_code # "USD"
           /\ state_exchange_rates.usd_exchange_rate.none
           /\ po_currency_code = invoice_currency_code) =>
              rates_valid.is_valid /\ rates_valid.warnings # {}

\* C16: validate_exchange_rates gives invalid exactly when the PO currency
\* differs from the invoice currency and there is no rate from the one to
\* the other (a missing USD rate gives a warning only), and with an invalid
\* verdict the wizard does not go from the preview to the confirm step, so
\* that no creation attempt starts.
C16_InvalidRatesStopThePreview ==
    [][/\ verdict_of_last_render'
       /\ (wizard_step = "preview" /\ wizard_step' = "confirm") =>
             rates_valid'.is_valid
       /\ (pc = "idle" /\ pc' # "idle") => rates_valid.is_valid
    ]_vars

\* the verdict alone, and no attempt with an invalid verdict
ValidVerdictBeforeAnyAttempt ==
    [][/\ verdict_of_last_render'
       /\ (pc = "idle" /\ pc' # "idle") => rates_valid.is_valid
    ]_vars

\* ---------------------------------------------------------------------
\* Payment terms: the functions of payment_terms_calculator.py and of
\* invoice_data.py applied to a term name, a description and an invoice
\* date
\* ---------------------------------------------------------------------
MaxPhrases == 2

\* phrases that payment term names are made of
Phrases ==
    {<<"N", "E", "T", " ", "3", "0", " ", "D", "A", "Y", "S">>, <<"N", "e", "t", " ", "1", "0">>, <<"A", "M", "S", " ", "6", "0", " ", "D", "A", "Y", "S">>, <<"C", "O", "D">>, <<"T", "T", " ", "I", "N", " ", "A", "D", "V", "A", "N", "C", "E">>,
     <<"C", "I", "A">>, <<"P", "R", "E", "P", "A", "I", "D">>, <<"5", "0", "%">>, <<"3", "0", ":", "7", "0">>, <<"2", "5", "T", "H">>, <<"E", "O", "M", " ", "1", "5">>, <<"M", "O", "A">>,
     <<"E", "N", "D", " ", "O", "F", " ", "M", "O", "N", "T", "H">>, <<"A", "F", "T", "E", "R">>, <<"B", "E", "F", "O", "R", "E">>, <<"U", "P", "O", "N">>, <<"N", "E", "T">>, <<"D", "A", "Y", "S">>, <<"A", "M", "S">>,
     <<"4", "5">>}

RECURSIVE PhraseTerms(_)
\* the names of at most n phrases separated by blanks
PhraseTerms(n) ==
    IF n = 0 THEN {<<>>}
    ELSE LET shorter == PhraseTerms(n - 1)
         IN shorter \cup Phrases
                    \cup {join_with_space(s, p) : s \in shorter \ {<<>>}, p \in Phrases}

\* names of the test cases of payment_terms_calculator.py and of the
\* fallback rows of get_payment_terms
ExampleTerms ==
    {<<"N", "E", "T", " ", "6", "0", " ", "D", "A", "Y", "S", " ", "B", "Y", " ", "T", "T">>, <<"N", "e", "t", " ", "5", " ", "d", "a", "y", "s", " ", "b", "y", " ", "T", "T">>, <<"A", "M", "S", " ", "6", "0", " ", "D", "A", "Y", "S", " ", "B", "Y", " ", "T", "T">>,
     <<"5", "0", "%", " ", "I", "N", " ", "A", "D", "V", "A", "N", "C", "E", ",", " ", "5", "0", "%", " ", "N", "E", "T", " ", "3", "0", " ", "D", "A", "Y", "S">>, <<"5", "0", "%", " ", "D", "P", ",", " ", "5", "0", "%", " ", "N", "e", "t", " ", "1", "0">>,
     <<"3", "0", ":", "4", "0", ":", "3", "0", " ", "N", "e", "t", " ", "3", "0">>, <<"T", "T", " ", "o", "n", " ", "t", "h", "e", " ", "2", "5", "t", "h", " ", "o", "f", " ", "e", "v", "e", "r", "y", " ", "m", "o", "n", "t", "h">>, <<"E", "O", "M", " ", "9", "0">>,
     <<"T", "T", " ", "A", "F", "T", "E", "R", " ", "D", "E", "L", "I", "V", "E", "R", "Y">>, <<"N", "e", "t", " ", "6", "0">>, <<" ", "N", "E", "T", " ", "3", "0", " ", "D", "A", "Y", "S", " ">>,
     <<"5", "0", "%", " ", "N", "E", "T", " ", "1", "5", " ", "D", "A", "Y", "S", ",", " ", "5", "0", "%", " ", "N", "E", "T", " ", "4", "5", " ", "D", "A", "Y", "S">>}

TermNames == {NaTerm} \cup {Term(s) : s \in PhraseTerms(MaxPhrases) \cup ExampleTerms}

TermDescriptions == {<<>>, <<"N", "E", "T", " ", "5", " ", "D", "A", "Y", "S">>}

\* numbers of days of the terms 'NET N DAYS' and 'AMS N DAYS'
DayCounts == {0, 1, 30, 60, 90}

NetAmsTerms ==
    {Term(<<"N", "E", "T", " ">> \o str_of(n) \o <<" ", "D", "A", "Y", "S">>) : n \in DayCounts}
        \cup {Term(<<"A", "M", "S", " ">> \o str_of(n) \o <<" ", "D", "A", "Y", "S">>) : n \in DayCounts}

\* every day of 2024 and 2025
InvoiceDates ==
    {dt \in [year : {2024, 2025}, month : 1..12, day : 1..31] :
        dt.day <= days_in_month(dt.year, dt.month)}

InitTerm ==
    /\ arrival_details = [i \in LineIds |->
          [vendor_code |-> "V1", legal_entity_code |-> "E1",
           vendor_type |-> "Internal", product_purchase_order_id |-> 1,
           arrival_quantity |-> BaseArrivalQty, prior_invoiced |-> 0,
           payment_term |-> "T1", vat_percent |-> 10]]
    /\ product_purchase_orders = [p \in PoIds |->
          [purchase_quantity |-> MaxPoQty, legacy_invoice_qty |-> 0]]
    /\ UsdOrders
    /\ InitSession
    /\ NoAmounts
    /\ NoManageCall
    /\ NoSessions
    /\ term_result = NoTermResult
    /\ \/ /\ term \in TermNames
          /\ term_description \in TermDescriptions
          /\ term_date \in {date(2025, 1, 17), date(2024, 12, 26)}
       \/ /\ term \in NetAmsTerms
          /\ term_description = <<>>
          /\ term_date \in InvoiceDates

\* one test case of payment_terms_calculator.py: category, due date and
\* days of the term
print_test_case ==
    /\ ~term_result.parsed
    /\ term_result' =
          [term_result EXCEPT
              !.parsed = TRUE,
              !.category = categorize_payment_term(term, term_description),
              !.due = calculate_due_date(term, term_date, term_description),
              !.calculator_days = calculator_days_from_term_name(term)]
    /\ UNCHANGED <<term, term_description, term_date, dbVars, manageVars, sessVars, amtVars, storeVars,
                   wizVars, invoice_creating, runVars, rateVars, curVars>>

\* get_payment_terms: the days column of the row of the term
get_payment_terms ==
    /\ ~term_result.listed
    /\ term_result' =
          [term_result EXCEPT
              !.listed = TRUE,
              !.days = calculate_days_from_term_name(term)]
    /\ UNCHANGED <<term, term_description, term_date, dbVars, manageVars, sessVars, amtVars, storeVars,
                   wizVars, invoice_creating, runVars, rateVars, curVars>>

\* InvoiceService.calculate_due_date
service_calculate_due_date(inv_date, payment_term_days) ==
    plus_days(inv_date, payment_term_days)

\* show_payment_terms for lines that all have the term: the days of the
\* term are those of its row of get_payment_terms, or computed from the
\* name when it has no row, and those of 'Net 30' when the lines have no
\* term; state.due_date is the invoice date plus these days
show_payment_terms ==
    /\ ~term_result.shown
    /\ term_result' =
          [term_result EXCEPT
              !.listed = TRUE,
              !.days = calculate_days_from_term_name(term),
              !.shown = TRUE,
              !.due_date = SomeDate(service_calculate_due_date(term_date,
                              IF term.isna THEN 30
                              ELSE calculate_days_from_term_name(term)))]
    /\ UNCHANGED <<term, term_description, term_date, dbVars, manageVars, sessVars, amtVars, storeVars,
                   wizVars, invoice_creating, runVars, rateVars, curVars>>

\* the due date on its way to the header: show_invoice_form copies
\* state.due_date to invoice_data, create_purchase_invoice copies it to
\* the header row
create_with_due_date ==
    /\ term_result.shown
    /\ ~term_result.created
    /\ term_result' =
          [term_result EXCEPT
              !.created = TRUE,
              !.header_due_date = term_result.due_date]
    /\ UNCHANGED <<term, term_description, term_date, dbVars, manageVars, sessVars, amtVars, storeVars,
                   wizVars, invoice_creating, runVars, rateVars, curVars>>

TermNext ==
    \/ print_test_case
    \/ get_payment_terms
    \/ show_payment_terms
    \/ create_with_due_date

SpecTerm == InitTerm /\ [][TermNext]_vars

\* ---------------------------------------------------------------------
\* C17
\* ---------------------------------------------------------------------
\* the evaluated name, in upper case, contains one of the keywords
names_any(keywords) == ~term.isna /\ contains_any(upper(term.str), keywords)

names_split == ~term.isna /\ contains_any(term.str, {<<"%">>, <<":">>})
names_net_days == names_any({<<"N", "E", "T">>}) /\ names_any({<<"D", "A", "Y", "S">>})
names_ams == names_any({<<"A", "M", "S">>})
names_advance == names_any({<<"A", "D", "V", "A", "N", "C", "E">>, <<"C", "O", "D">>, <<"C", "I", "A">>, <<"P", "R", "E", "P", "A", "I", "D">>})
names_special_date == names_any({<<"2", "5", "T", "H">>, <<"E", "O", "M">>, <<"M", "O", "A">>, <<"E", "N", "D", " ", "O", "F", " ", "M", "O", "N", "T", "H">>})
names_event == names_any({<<"A", "F", "T", "E", "R">>, <<"B", "E", "F", "O", "R", "E">>, <<"U", "P", "O", "N">>})

\* C17: the category of a term is the first that matches in the order
\* '%' or ':' (SPLIT_PAYMENT, whatever else the name contains), NET and
\* DAYS (NET_DAYS), AMS (AMS_DAYS), ADVANCE/COD/CIA/PREPAID (ADVANCE),
\* 25TH/EOM/MOA/END OF MONTH (SPECIAL_DATE), AFTER/BEFORE/UPON
\* (AFTER_EVENT); a name that matches none, and a missing name, is OTHER;
\* 'COD' is ADVANCE.
C17_FirstMatchCategory ==
    term_result.parsed =>
        /\ term_result.category \in {SPLIT_PAYMENT, NET_DAYS, AMS_DAYS, ADVANCE,
                                     SPECIAL_DATE, AFTER_EVENT, OTHER_TERM}
        /\ names_split => term_result.category = SPLIT_PAYMENT
        /\ ~names_split /\ names_net_days => term_result.category = NET_DAYS
        /\ ~names_split /\ ~names_net_days /\ names_ams
              => term_result.category = AMS_DAYS
        /\ ~names_split /\ ~names_net_days /\ ~names_ams /\ names_advance
              => term_result.category = ADVANCE
        /\ ~names_split /\ ~names_net_days /\ ~names_ams /\ ~names_advance
              /\ names_special_date
              => term_result.category = SPECIAL_DATE
        /\ ~names_split /\ ~names_net_days /\ ~names_ams /\ ~names_advance
              /\ ~names_special_date /\ names_event
              => term_result.category = AFTER_EVENT
        /\ ~names_split /\ ~names_net_days /\ ~names_ams /\ ~names_advance
              /\ ~names_special_date /\ ~names_event
              => term_result.category = OTHER_TERM
        /\ term = Term(<<"C", "O", "D">>) => term_result.category = ADVANCE

\* a name with '%', NET, DAYS and an advance keyword has been categorized
\* SPLIT_PAYMENT
C17_Witness ==
    /\ term_result.parsed
    /\ names_split /\ names_net_days /\ names_advance
    /\ term_result.category = SPLIT_PAYMENT

\* ---------------------------------------------------------------------
\* C18
\* ---------------------------------------------------------------------
ams_term(n) == Term(<<"A", "M", "S", " ">> \o str_of(n) \o <<" ", "D", "A", "Y", "S">>)

\* the first day of the month after the month of the evaluated invoice date
following_month_start ==
    IF term_date.month = 12 THEN [year |-> term_date.year + 1, month |-> 1, day |-> 1]
    ELSE [year |-> term_date.year, month |-> term_date.month + 1, day |-> 1]

\* the due date returned for the evaluated term is d, and no manual review
\* is asked for
due_without_review(d) ==
    /\ ~term_result.due.due_date.none
    /\ [year |-> term_result.due.due_date.year,
        month |-> term_result.due.due_date.month,
        day |-> term_result.due.due_date.day] = d
    /\ ~term_result.due.needs_manual_review

\* C18: for every invoice date and every N the due date of 'AMS N DAYS' is
\* N days after the first day of the following month (January of the next
\* year for a date in December) and needs no manual review; AMS 60 DAYS on
\* 2025-01-17 is due on 2025-04-02 and NET 30 DAYS on 2025-01-17 on
\* 2025-02-16.
C18_AmsDueDate ==
    term_result.parsed =>
        /\ \A n \in DayCounts :
              term = ams_term(n) =>
                 /\ ~term_result.due.due_date.none
                 /\ ~term_result.due.needs_manual_review
                 /\ toordinal(term_result.due.due_date)
                       = toordinal(following_month_start) + n
        /\ term = Term(<<"A", "M", "S", " ", "6", "0", " ", "D", "A", "Y", "S">>) /\ term_date = date(2025, 1, 17)
              => due_without_review(date(2025, 4, 2))
        /\ term = Term(<<"N", "E", "T", " ", "3", "0", " ", "D", "A", "Y", "S">>) /\ term_date = date(2025, 1, 17)
              => due_without_review(date(2025, 2, 16))

\* AMS 60 DAYS has been evaluated for an invoice of 17 December 2025: due
\* on 2 March 2026
C18_Witness ==
    /\ term_result.parsed
    /\ term = ams_term(60)
    /\ term_date = date(2025, 12, 17)
    /\ due_without_review(date(2026, 3, 2))

\* ---------------------------------------------------------------------
\* C19
\* ---------------------------------------------------------------------
\* the evaluated name followed by the description, in upper case
name_and_description == upper(join_with_space(term.str, term_description))

\* the due date returned for the evaluated term is days after the invoice
\* date, and manual review is asked for
due_after_days_with_review(days) ==
    /\ ~term_result.due.due_date.none
    /\ toordinal(term_result.due.due_date) = toordinal(term_date) + days
    /\ term_result.due.needs_manual_review

split_due_from(last_net) ==
    term_result.parsed /\ term_result.category = SPLIT_PAYMENT =>
        due_after_days_with_review(IF last_net.none THEN 30 ELSE last_net.value)

\* C19: a SPLIT_PAYMENT term is due n days after the invoice date, n being
\* the number of the last 'NET <int>' of the name followed by the
\* description, with or without DAYS after it, and 30 days after the
\* invoice date when there is none; it always needs manual review.
C19_SplitDueFromLastNet ==
    split_due_from(re_findall_last(name_and_description, <<"N", "E", "T">>, 1, FALSE))

\* the same with the number of the last 'NET <int> DAY' or 'NET <int> DAYS'
SplitDueFromLastNetDays ==
    split_due_from(re_findall_last(name_and_description, <<"N", "E", "T">>, 1, TRUE))

\* ---------------------------------------------------------------------
\* C20
\* ---------------------------------------------------------------------
\* C20: for every term name the day count of invoice_data (the one the
\* wizard and the list of payment terms use) is the day count of
\* payment_terms_calculator: N for NET_DAYS, N + 15 for AMS_DAYS, 0 for
\* ADVANCE, the last NET days or 30 for SPLIT_PAYMENT, 30 for every other
\* category.
C20_DayCountsAgree ==
    term_result.parsed /\ term_result.listed =>
        term_result.days = term_result.calculator_days

\* the two day counts agree on the names 'NET N DAYS' and 'AMS N DAYS', on
\* the plain advance keywords and on a missing name
DayCountsAgreeOnPlainTerms ==
    /\ term_result.parsed /\ term_result.listed
    /\ term \in NetAmsTerms \cup {NaTerm, Term(<<"C", "O", "D">>), Term(<<"C", "I", "A">>),
                                  Term(<<"P", "R", "E", "P", "A", "I", "D">>), Term(<<"T", "T", " ", "I", "N", " ", "A", "D", "V", "A", "N", "C", "E">>)}
    => term_result.days = term_result.calculator_days

\* the day count of payment_terms_calculator follows the category
CalculatorDaysFollowCategory ==
    term_result.parsed =>
        /\ term_result.category = ADVANCE => term_result.calculator_days = 0
        /\ term_result.category \in {SPECIAL_DATE, AFTER_EVENT, OTHER_TERM}
              => term_result.calculator_days = 30
        /\ \A n \in DayCounts :
              /\ term = Term(<<"N", "E", "T", " ">> \o str_of(n) \o <<" ", "D", "A", "Y", "S">>)
                    => term_result.calculator_days = n
              /\ term = ams_term(n) => term_result.calculator_days = n + 15

\* ---------------------------------------------------------------------
\* C21
\* ---------------------------------------------------------------------
\* C21: the due date stored on an invoice created through the wizard is
\* the due date that PaymentTermParser.calculate_due_date gives for the
\* payment term and the invoice date, whenever the parser gives a date.
C21_StoredDueDateIsParserDueDate ==
    /\ term_result.created
    /\ term_result.parsed
    /\ ~term_result.due.due_date.none
    => term_result.header_due_date = term_result.due.due_date

\* the stored due date is the invoice date plus the day count of
\* invoice_data for the name of the term
StoredDueDateIsInvoiceDatePlusDays ==
    term_result.created =>
        /\ ~term_result.header_due_date.none
        /\ toordinal(term_result.header_due_date)
              = toordinal(term_date) + term_result.days

\* ---------------------------------------------------------------------
\* Amounts of an invoice: the totals of the form and the rows written by
\* create_purchase_invoice, for every selection of lines and every rate
\* ---------------------------------------------------------------------
MaxAmtLines == 2

\* a selected line: its row of selected_df (uninvoiced_quantity,
\* true_remaining_qty, vat_percent) and of details_df (arrival_quantity);
\* two units arrived, of which one may be invoiced already, and the PO
\* line may have room for one unit less than is left of the arrival
AmtLineRows ==
    {r \in [unit_cost : {4, 125}, vat_percent : VatRates,
            arrival_quantity : {2}, uninvoiced_quantity : {1, 2},
            true_remaining_qty : {1, 2}] :
        r.true_remaining_qty <= r.uninvoiced_quantity}

AmtSelections ==
    UNION {[1..n -> AmtLineRows] : n \in 1..MaxAmtLines}

\* po -> invoice rates of two different currencies
AmtRates == {Rate(2, 1), Rate(1, 3)}

\* the rate calculate_exchange_rates left in the state, and the rate the
\* call of get_latest_exchange_rate in get_invoice_amounts_in_currency
\* returned: the same rate, or None
AmtRateCases ==
    {[same_currency |-> TRUE, po_to_invoice_rate |-> One, amounts_rate |-> One]}
      \cup {[same_currency |-> FALSE, po_to_invoice_rate |-> r, amounts_rate |-> a] :
               r \in AmtRates, a \in {NoRate}}
      \cup {[same_currency |-> FALSE, po_to_invoice_rate |-> r, amounts_rate |-> r] :
               r \in AmtRates}

\* totals a caller of create_purchase_invoice may put in invoice_data
ClientTotals == {0, 12345}

InitAmt ==
    /\ arrival_details = [i \in LineIds |->
          [vendor_code |-> "V1", legal_entity_code |-> "E1",
           vendor_type |-> "Internal", product_purchase_order_id |-> 1,
           arrival_quantity |-> BaseArrivalQty, prior_invoiced |-> 0,
           payment_term |-> "T1", vat_percent |-> 10]]
    /\ product_purchase_orders = [p \in PoIds |->
          [purchase_quantity |-> MaxPoQty, legacy_invoice_qty |-> 0]]
    /\ UsdOrders
    /\ InitSession
    /\ NoTermCall
    /\ amt_lines \in AmtSelections
    /\ amt_rate \in AmtRateCases
    /\ amt_result = NoAmountResult
    /\ NoManageCall
    /\ NoSessions

\* show_invoice_form: the totals of the selection, the converted totals
\* when the currencies differ, and the totals shown
show_invoice_form_totals ==
    /\ ~amt_result.totalled
    /\ ~amt_result.created
    /\ LET converted_amounts ==
               IF amt_rate.same_currency THEN NoAmountTotals
               ELSE amounts_in_currency(amt_lines, FALSE, amt_rate.amounts_rate)
       IN amt_result' =
             [amt_result EXCEPT
                 !.totalled = TRUE,
                 !.totals_with_vat = totals_with_vat(amt_lines),
                 !.converted_amounts = converted_amounts,
                 !.totals = form_amounts(amt_lines, amt_rate.same_currency,
                                         converted_amounts)]
    /\ UNCHANGED <<amt_lines, amt_rate, termVars, dbVars, manageVars, sessVars, storeVars, wizVars,
                   invoice_creating, runVars, rateVars, curVars>>

\* review, confirm and create: invoice_data carries total_with_vat of the
\* form and po_to_invoice_rate of the state
confirm_and_create ==
    /\ amt_result.totalled
    /\ ~amt_result.created
    /\ amt_result' =
          [amt_result EXCEPT
              !.created = TRUE,
              !.via_wizard = TRUE,
              !.rows = created_rows(amt_lines,
                          amt_result.totals.total_with_vat,
                          amt_rate.po_to_invoice_rate)]
    /\ UNCHANGED <<amt_lines, amt_rate, termVars, dbVars, manageVars, sessVars, storeVars, wizVars,
                   invoice_creating, runVars, rateVars, curVars>>

\* create_purchase_invoice called with any total in invoice_data
create_purchase_invoice(total_invoiced_amount) ==
    /\ ~amt_result.totalled
    /\ ~amt_result.created
    /\ amt_result' =
          [amt_result EXCEPT
              !.created = TRUE,
              !.rows = created_rows(amt_lines, total_invoiced_amount,
                          amt_rate.po_to_invoice_rate)]
    /\ UNCHANGED <<amt_lines, amt_rate, termVars, dbVars, manageVars, sessVars, storeVars, wizVars,
                   invoice_creating, runVars, rateVars, curVars>>

AmtNext ==
    \/ show_invoice_form_totals
    \/ confirm_and_create
    \/ \E total \in ClientTotals : create_purchase_invoice(total)

SpecAmt == InitAmt /\ [][AmtNext]_vars

\* ---------------------------------------------------------------------
\* C22
\* ---------------------------------------------------------------------
\* the sum over the selected lines of unit cost x true remaining quantity
\* x weight of the line, in ten-thousandths
sum_true_remaining(weight) ==
    SumOver(DOMAIN amt_lines, [i \in DOMAIN amt_lines |->
        amt_lines[i].unit_cost * amt_lines[i].true_remaining_qty * weight[i]])

\* the converted totals are the totals of the true remaining quantities
\* at the rate r
converted_from_true_remaining(r) ==
    /\ amt_result.converted_amounts.subtotal
          = round_2(sum_true_remaining([i \in DOMAIN amt_lines |-> 100]) * r.num,
                    10000 * r.den)
    /\ amt_result.converted_amounts.total_vat
          = round_2(sum_true_remaining([i \in DOMAIN amt_lines |->
                        amt_lines[i].vat_percent]) * r.num,
                    10000 * r.den)
    /\ amt_result.converted_amounts.total_with_vat
          = round_2(sum_true_remaining([i \in DOMAIN amt_lines |->
                        100 + amt_lines[i].vat_percent]) * r.num,
                    10000 * r.den)

\* C22: for every selection and every rate r the converted totals of
\* get_invoice_amounts_in_currency are the totals of
\* calculate_invoice_totals_with_vat with every line amount multiplied by
\* r: both use the true remaining quantity of a line, and round after
\* summation.
C22_ConvertedTotalsUseTrueRemaining ==
    amt_result.totalled /\ ~amt_result.converted_amounts.none =>
        converted_from_true_remaining(amt_result.converted_amounts.exchange_rate)

\* the same for selections whose lines all have a true remaining quantity
\* equal to their uninvoiced quantity
ConvertedTotalsOfUnclampedLines ==
    /\ amt_result.totalled /\ ~amt_result.converted_amounts.none
    /\ \A i \in DOMAIN amt_lines :
          amt_lines[i].true_remaining_qty = amt_lines[i].uninvoiced_quantity
    => converted_from_true_remaining(amt_result.converted_amounts.exchange_rate)

\* the totals of calculate_invoice_totals_with_vat are those of the true
\* remaining quantities at rate 1
SameCurrencyTotalsUseTrueRemaining ==
    amt_result.totalled =>
        /\ amt_result.totals_with_vat.subtotal
              = round_2(sum_true_remaining([i \in DOMAIN amt_lines |-> 100]), 10000)
        /\ amt_result.totals_with_vat.total_with_vat
              = round_2(sum_true_remaining([i \in DOMAIN amt_lines |->
                            100 + amt_lines[i].vat_percent]), 10000)

\* ---------------------------------------------------------------------
\* C25
\* ---------------------------------------------------------------------
\* C25: the total_invoiced_amount_exclude_vat that create_purchase_invoice
\* writes to the header is round(sum of unit cost x quantity x rate, 2)
\* over the detail lines, whatever total the caller put in invoice_data:
\* two creations with the same lines and rate store the same value.
C25_TotalExcludeVatIsRecomputed ==
    amt_result.created =>
        amt_result.rows.header.total_invoiced_amount_exclude_vat
           = round_2(SumOver(DOMAIN amt_lines, [i \in DOMAIN amt_lines |->
                        amt_lines[i].unit_cost * amt_lines[i].arrival_quantity])
                       * amt_rate.po_to_invoice_rate.num,
                     100 * amt_rate.po_to_invoice_rate.den)

\* an invoice of two lines has been created at the rate 1/3 with a total
\* of 123.45 in invoice_data: the header carries that total and another
\* total without VAT
C25_Witness ==
    /\ amt_result.created
    /\ ~amt_result.via_wizard
    /\ Len(amt_lines) = 2
    /\ amt_rate.po_to_invoice_rate = Rate(1, 3)
    /\ amt_result.rows.header.total_invoiced_amount = 12345
    /\ amt_result.rows.header.total_invoiced_amount_exclude_vat < 12345

\* ---------------------------------------------------------------------
\* C29
\* ---------------------------------------------------------------------
\* the sum of the amounts including VAT of the detail rows written
sum_of_detail_amounts ==
    SumOver(DOMAIN amt_result.rows.details,
            [i \in DOMAIN amt_result.rows.details |->
                amt_result.rows.details[i].amount])

\* C29: the total_invoiced_amount of the header of an invoice created
\* through the wizard is the sum of the amounts including VAT of its
\* detail rows.
C29_HeaderTotalIsSumOfDetails ==
    amt_result.created /\ amt_result.via_wizard =>
        amt_result.rows.header.total_invoiced_amount = sum_of_detail_amounts

\* every selected line has its whole arrival quantity left to invoice
whole_lines ==
    \A i \in DOMAIN amt_lines :
        /\ amt_lines[i].true_remaining_qty = amt_lines[i].arrival_quantity
        /\ amt_lines[i].uninvoiced_quantity = amt_lines[i].arrival_quantity

\* the header total is the sum of the detail amounts for an invoice in the
\* currency of the order whose lines are all whole
HeaderTotalOfWholeLinesInOrderCurrency ==
    /\ amt_result.created /\ amt_result.via_wizard
    /\ amt_rate.same_currency
    /\ whole_lines
    => amt_result.rows.header.total_invoiced_amount = sum_of_detail_amounts

\* ---------------------------------------------------------------------
\* Invoice management: update_invoice and delete_invoice on stored invoices
\* ---------------------------------------------------------------------
MaxManageCalls == 2

\* the update_data of the edit form
edit_form_update_data == [f \in updatable_fields |-> "new"]

\* update_data a caller may pass: nothing, keys naming other columns of
\* purchase_invoices only, whitelisted keys only, and both together
UpdateDatas ==
    {[f \in keys |-> "new"] :
        keys \in {{},
                  {"total_invoiced_amount"},
                  {"currency_id", "usd_exchange_rate"},
                  {"invoice_number", "seller_id", "buyer_id", "payment_term_id"},
                  {"due_date"},
                  {"modified_date"},
                  {"due_date", "total_invoiced_amount"},
                  {"commercial_invoice_no", "email_to_accountant", "currency_id"},
                  updatable_fields \cup
                     {"total_invoiced_amount", "currency_id",
                      "usd_exchange_rate", "seller_id", "buyer_id",
                      "payment_term_id", "invoice_number"}}}
    \cup {edit_form_update_data}

\* ids passed to the two functions; no invoice has the last one
ManagedIds == {1, 2, 3}

StoredHeader(id, delete_flag) ==
    [id |-> id, invoice_number |-> "old", commercial_invoice_no |-> "old",
     invoiced_date |-> "old", due_date |-> "old",
     email_to_accountant |-> "old", modified_date |-> "old",
     total_invoiced_amount |-> "old",
     total_invoiced_amount_exclude_vat |-> "old", currency_id |-> "old",
     usd_exchange_rate |-> "old", seller_id |-> "old", buyer_id |-> "old",
     payment_term_id |-> "old", delete_flag |-> delete_flag]

StoredDetail(id, purchase_invoice_id, delete_flag) ==
    [id |-> id, purchase_invoice_id |-> purchase_invoice_id,
     amount |-> "old", delete_flag |-> delete_flag]

\* invoice 1 is voided or not and has any of a live and a deleted detail
\* row; invoice 2 is not voided and has one live detail row
InitManage ==
    /\ arrival_details = [i \in LineIds |->
          [vendor_code |-> "V1", legal_entity_code |-> "E1",
           vendor_type |-> "Internal", product_purchase_order_id |-> 1,
           arrival_quantity |-> BaseArrivalQty, prior_invoiced |-> 0,
           payment_term |-> "T1", vat_percent |-> 10]]
    /\ product_purchase_orders = [p \in PoIds |->
          [purchase_quantity |-> MaxPoQty, legacy_invoice_qty |-> 0]]
    /\ UsdOrders
    /\ medias = {}
    /\ \E delete_flag \in {0, 1} :
          purchase_invoices = {StoredHeader(1, delete_flag), StoredHeader(2, 0)}
    /\ \E rows \in SUBSET {StoredDetail(11, 1, 0), StoredDetail(12, 1, 1)} :
          purchase_invoice_details = rows \cup {StoredDetail(21, 2, 0)}
    /\ purchase_invoice_medias = {}
    /\ s3 = {}
    /\ selected_ans = {}
    /\ wizard_step = "select"
    /\ filters = NoFilters
    /\ hide_completed_po_lines = TRUE
    /\ selected_df = NoneDf
    /\ details_df = NoneDf
    /\ invoice_data = NoInvoiceData
    /\ invoice_creating = FALSE
    /\ uploaded_files = 0
    /\ summary = NoSummary
    /\ preview_form = FALSE
    /\ pc = "idle"
    /\ upload_idx = 0
    /\ upload_results = NoUploadResults
    /\ s3_keys_uploaded = <<>>
    /\ media_ids_created = <<>>
    /\ tx = EmptyTx
    /\ attempt = NoAttempt
    /\ _rate_cache = EmptyCache
    /\ _cache_expiry = EmptyCache
    /\ now = 0
    /\ resolved = NoCall
    /\ invoice_currency_code = None
    /\ state_exchange_rates = NoExchangeRates
    /\ invoice_totals = NoTotals
    /\ rates_valid = NotValidated
    /\ NoTermCall
    /\ NoAmounts
    /\ NoManageCall
    /\ NoSessions

\* update_invoice(invoice_id, update_data); db_ok: the statement runs
\* without an exception
update_invoice(invoice_id, update_data, db_ok) ==
    LET fields == update_fields(update_data)
        written == fields # {} /\ db_ok
        matched == rows_matched(invoice_id)
    IN /\ manage_call.calls < MaxManageCalls
       /\ purchase_invoices' =
             IF written
             THEN update_where_not_deleted(invoice_id, set_clause(update_data))
             ELSE purchase_invoices
       /\ manage_call' =
             [op |-> "update_invoice", invoice_id |-> invoice_id,
              hard_delete |-> FALSE, update_fields |-> fields,
              other_keys |-> DOMAIN update_data \ updatable_fields,
              success |-> written /\ matched # {},
              message |->
                 IF fields = {} THEN "No valid fields to update"
                 ELSE IF ~db_ok THEN "Error"
                 ELSE IF matched # {} THEN "Invoice updated successfully"
                 ELSE "Invoice not found or already deleted",
              calls |-> manage_call.calls + 1]
       /\ UNCHANGED <<dbVars, medias, purchase_invoice_details,
                      purchase_invoice_medias, s3, wizVars, invoice_creating,
                      runVars, rateVars, curVars, termVars, amtVars, sessVars>>

\* delete_invoice(invoice_id, hard_delete), which void_invoice of the
\* management page calls with hard_delete = False; row_by_name: the row of the
\* count can be read by column name (result['detail_count']); db_ok: the
\* statements run without an exception
delete_invoice(invoice_id, hard_delete, row_by_name, db_ok) ==
    LET refused == hard_delete /\ ~hard_delete_allowed(detail_count(invoice_id))
        raised == ~db_ok \/ (hard_delete /\ ~row_by_name)
        rowcount ==
            IF hard_delete
            THEN Cardinality({r \in purchase_invoices : r.id = invoice_id})
            ELSE Cardinality(rows_matched(invoice_id))
    IN /\ manage_call.calls < MaxManageCalls
       /\ purchase_invoices' =
             IF raised \/ refused THEN purchase_invoices
             ELSE IF hard_delete
             THEN {r \in purchase_invoices : r.id # invoice_id}
             ELSE update_where_not_deleted(invoice_id,
                     [delete_flag |-> 1, modified_date |-> "NOW()"])
       /\ manage_call' =
             [op |-> "delete_invoice", invoice_id |-> invoice_id,
              hard_delete |-> hard_delete, update_fields |-> {},
              other_keys |-> {},
              success |-> ~raised /\ ~refused /\ rowcount > 0,
              message |->
                 IF raised THEN "Error"
                 ELSE IF refused
                 THEN "Cannot delete invoice with line items. Void it instead."
                 ELSE IF rowcount = 0
                 THEN "Invoice not found or already deleted"
                 ELSE IF hard_delete THEN "Invoice deleted successfully"
                 ELSE "Invoice voided successfully",
              calls |-> manage_call.calls + 1]
       /\ UNCHANGED <<dbVars, medias, purchase_invoice_details,
                      purchase_invoice_medias, s3, wizVars, invoice_creating,
                      runVars, rateVars, curVars, termVars, amtVars, sessVars>>

ManageNext ==
    \/ \E invoice_id \in ManagedIds, update_data \in UpdateDatas, db_ok \in BOOLEAN :
          update_invoice(invoice_id, update_data, db_ok)
    \/ \E invoice_id \in ManagedIds, hard_delete \in BOOLEAN,
          row_by_name \in BOOLEAN, db_ok \in BOOLEAN :
          delete_invoice(invoice_id, hard_delete, row_by_name, db_ok)

SpecManage == InitManage /\ [][ManageNext]_vars

\* ---------------------------------------------------------------------
\* C23
\* ---------------------------------------------------------------------
\* the header row of an invoice
header_of(rows, id) == CHOOSE r \in rows : r.id = id

\* the ids of the header rows
header_ids(rows) == {r.id : r \in rows}

\* the columns of a header that are not on the whitelist and not the flag
financial_columns ==
    {"id", "invoice_number", "total_invoiced_amount",
     "total_invoiced_amount_exclude_vat", "currency_id", "usd_exchange_rate",
     "seller_id", "buyer_id", "payment_term_id"}

\* C23: a call of update_invoice, whatever keys update_data has, removes
\* and adds no header, leaves the detail rows alone and changes no column
\* of any header outside commercial_invoice_no, invoiced_date, due_date,
\* email_to_accountant and modified_date; it changes only the invoice it
\* names, and only columns update_data names plus modified_date; with no
\* whitelisted key it fails and changes nothing; a voided invoice is not
\* changed.
C23_UpdateWritesWhitelistOnly ==
    [][manage_call'.op = "update_invoice" =>
          /\ purchase_invoice_details' = purchase_invoice_details
          /\ header_ids(purchase_invoices') = header_ids(purchase_invoices)
          /\ \A r \in purchase_invoices :
                LET after == header_of(purchase_invoices', r.id)
                IN /\ \A f \in DOMAIN r \ updatable_fields : after[f] = r[f]
                   /\ \A f \in financial_columns : after[f] = r[f]
                   /\ \A f \in updatable_fields :
                         after[f] # r[f] =>
                            f \in manage_call'.update_fields \cup {"modified_date"}
                   /\ (r.id # manage_call'.invoice_id => after = r)
                   /\ (r.delete_flag = 1 => after = r)
          /\ (manage_call'.update_fields = {} =>
                 /\ ~manage_call'.success
                 /\ manage_call'.message = "No valid fields to update"
                 /\ purchase_invoices' = purchase_invoices)
          /\ (manage_call'.success =>
                 \E r \in purchase_invoices :
                    r.id = manage_call'.invoice_id /\ r.delete_flag = 0)
    ]_vars

\* an update that names an amount next to the due date changed the due
\* date of invoice 2 and left its amount alone
C23_Witness ==
    /\ manage_call.op = "update_invoice"
    /\ manage_call.invoice_id = 2
    /\ manage_call.success
    /\ manage_call.update_fields = {"due_date"}
    /\ manage_call.other_keys = {"total_invoiced_amount"}
    /\ header_of(purchase_invoices, 2).due_date = "new"
    /\ header_of(purchase_invoices, 2).modified_date = "NOW()"
    /\ header_of(purchase_invoices, 2).total_invoiced_amount = "old"

\* an update of a voided invoice with whitelisted keys was refused
UpdateOfVoidedRefused ==
    /\ manage_call.op = "update_invoice"
    /\ manage_call.invoice_id = 1
    /\ manage_call.update_fields # {}
    /\ manage_call.message = "Invoice not found or already deleted"
    /\ \E r \in purchase_invoices : r.id = 1 /\ r.delete_flag = 1

\* ---------------------------------------------------------------------
\* C24
\* ---------------------------------------------------------------------
\* the invoice has a detail row that is not deleted
has_lines(id) == detail_count(id) > 0

\* the header of the invoice the call names, if it has one
named_headers == {r \in purchase_invoices : r.id = manage_call'.invoice_id}

\* C24: a call of delete_invoice removes no detail row and no header of an
\* invoice that has a non-deleted detail row; a hard delete of such an
\* invoice fails and changes nothing; voiding removes no header, changes
\* only the named invoice and only its delete_flag (to 1) and
\* modified_date; voiding a voided or missing invoice fails and changes
\* nothing.
C24_InvoiceWithLinesIsNeverRemoved ==
    [][manage_call'.op = "delete_invoice" =>
          /\ purchase_invoice_details' = purchase_invoice_details
          /\ \A r \in purchase_invoices :
                has_lines(r.id) => r.id \in header_ids(purchase_invoices')
          /\ (manage_call'.hard_delete /\ has_lines(manage_call'.invoice_id) =>
                 /\ ~manage_call'.success
                 /\ purchase_invoices' = purchase_invoices)
          /\ (~manage_call'.hard_delete =>
                 /\ header_ids(purchase_invoices') = header_ids(purchase_invoices)
                 /\ \A r \in purchase_invoices :
                       LET after == header_of(purchase_invoices', r.id)
                       IN /\ \A f \in DOMAIN r \ {"delete_flag", "modified_date"} :
                                after[f] = r[f]
                          /\ (r.id # manage_call'.invoice_id => after = r)
                          /\ (after # r => after.delete_flag = 1)
                 /\ (manage_call'.success =>
                        \E r \in named_headers :
                           /\ r.delete_flag = 0
                           /\ header_of(purchase_invoices', r.id).delete_flag = 1)
                 /\ (\A r \in named_headers : r.delete_flag = 1) =>
                        /\ ~manage_call'.success
                        /\ purchase_invoices' = purchase_invoices)
    ]_vars

\* a hard delete of invoice 2, which has a line, was refused after the
\* invoice had been voided
C24_Witness ==
    /\ manage_call.op = "delete_invoice"
    /\ manage_call.hard_delete
    /\ manage_call.invoice_id = 2
    /\ manage_call.message = "Cannot delete invoice with line items. Void it instead."
    /\ \E r \in purchase_invoices : r.id = 2 /\ r.delete_flag = 1
    /\ \E d \in purchase_invoice_details :
          d.purchase_invoice_id = 2 /\ d.delete_flag = 0

\* voiding a voided invoice was refused
VoidOfVoidedRefused ==
    /\ manage_call.op = "delete_invoice"
    /\ ~manage_call.hard_delete
    /\ manage_call.calls = 2
    /\ manage_call.invoice_id = 2
    /\ manage_call.message = "Invoice not found or already deleted"

\* a hard delete removed an invoice without non-deleted detail rows
HardDeleteOfInvoiceWithoutLines ==
    /\ manage_call.op = "delete_invoice"
    /\ manage_call.hard_delete
    /\ manage_call.success
    /\ 1 \notin header_ids(purchase_invoices)

\* ---------------------------------------------------------------------
\* Two wizard sessions on one database
\* ---------------------------------------------------------------------
\* ids of the vendors and of the legal entities
vendor_id_of == [v \in Vendors |-> IF v = "V1" THEN 1 ELSE 2]
entity_id_of == [e \in Entities |-> IF e = "E1" THEN 1 ELSE 2]

\* datetime.now() of the sessions: one day, two seconds of it
Today == <<"2", "0", "2", "5", "0", "1", "1", "7">>
Timestamps == {<<"1", "0", "1", "5", "0", "0">>, <<"1", "0", "1", "5", "0", "1">>}

\* No line is invoiced yet and all lines are of (E1, Internal); line 1 is
\* of vendor V1 on PO line 1; every other line is of V1 on PO line 1 or
\* of V2 on PO line 2; PO line 1 ordered one or two arrivals.
InitSess ==
    /\ arrival_details \in [LineIds -> ArrivalRows]
    /\ \A i \in LineIds :
          /\ arrival_details[i].legal_entity_code = "E1"
          /\ arrival_details[i].vendor_type = "Internal"
          /\ OneTermOneVat({i})
          /\ \/ /\ arrival_details[i].vendor_code = "V1"
                /\ arrival_details[i].product_purchase_order_id = 1
             \/ /\ i > 1
                /\ arrival_details[i].vendor_code = "V2"
                /\ arrival_details[i].product_purchase_order_id = 2
          /\ arrival_details[i].prior_invoiced = 0
    /\ product_purchase_orders \in [PoIds -> PoRows]
    /\ \A p \in PoIds :
          /\ product_purchase_orders[p].legacy_invoice_qty = 0
          /\ product_purchase_orders[p].purchase_quantity
                \in (IF p = 1 THEN {BaseArrivalQty, MaxPoQty} ELSE {MaxPoQty})
    /\ UsdOrders
    /\ InitSession
    /\ NoTermCall
    /\ NoAmounts
    /\ NoManageCall
    /\ NoSessions

\* the selection summary of a session and its Proceed to Preview button;
\* returned: the PO lines the summary query gives back (none when it
\* fails)
session_proceed_to_preview(s, sel, returned) ==
    /\ sessions[s].wizard_step = "select"
    /\ LET r == show_selection_summary(get_uninvoiced_ans(NoFilters), sel, returned)
       IN sessions' =
             [sessions EXCEPT ![s] =
                IF r.shown /\ r.proceed
                THEN [@ EXCEPT !.wizard_step = "preview",
                               !.selected_ans = r.rows,
                               !.po_result = r.po_result]
                ELSE IF r.shown THEN [@ EXCEPT !.po_result = r.po_result]
                ELSE @]
    /\ UNCHANGED <<dbVars, storeVars, wizVars, invoice_creating, runVars,
                   rateVars, curVars, termVars, amtVars, manageVars>>

\* the first row of details_df
first_line(rows) == CHOOSE i \in rows : \A j \in rows : i <= j

\* the preview of a session and its Review button: the number generated
\* in this render goes into invoice_data with the invoice type
review_invoice(s, is_advance_payment, db_ok, timestamp) ==
    /\ sessions[s].wizard_step = "preview"
    /\ LET details == get_invoice_details(sessions[s].selected_ans)
           vendor_id == vendor_id_of[arrival_details[first_line(details)].vendor_code]
           buyer_id == entity_id_of[arrival_details[first_line(details)].legal_entity_code]
       IN sessions' =
             [sessions EXCEPT ![s] =
                [@ EXCEPT !.wizard_step = "confirm",
                          !.is_advance_payment = is_advance_payment,
                          !.invoice_number =
                              generate_invoice_number(Today, vendor_id, buyer_id,
                                  is_advance_payment, db_ok, timestamp)]]
    /\ UNCHANGED <<dbVars, storeVars, wizVars, invoice_creating, runVars,
                   rateVars, curVars, termVars, amtVars, manageVars>>

\* the header row create_purchase_invoice inserts for a session
session_header(s) ==
    [id |-> last_id + 1,
     invoice_number |-> sessions[s].invoice_number,
     seller_id |-> vendor_id_of[arrival_details[first_line(sessions[s].selected_ans)].vendor_code],
     buyer_id |-> entity_id_of[arrival_details[first_line(sessions[s].selected_ans)].legal_entity_code],
     invoice_type |-> IF sessions[s].is_advance_payment THEN "PROFORMA_INVOICE"
                      ELSE "COMMERCIAL_INVOICE",
     advance_payment |-> IF sessions[s].is_advance_payment THEN 1 ELSE 0,
     created_by |-> s]

\* the detail rows create_purchase_invoice inserts for a session
session_details(s) ==
    {[purchase_invoice_id |-> last_id + 1,
      arrival_detail_id |-> i,
      product_purchase_order_id |-> arrival_details[i].product_purchase_order_id,
      purchased_invoice_quantity |-> details_uninvoiced_quantity(i)] :
        i \in sessions[s].selected_ans}

\* Confirm of a session: create_invoice_final without attachments;
\* authenticated: the keycloak id is found; db_ok: the transaction of
\* create_purchase_invoice commits
create_invoice(s, authenticated, db_ok) ==
    /\ sessions[s].wizard_step = "confirm"
    /\ IF create_gate(s, authenticated) /\ db_ok
       THEN /\ purchase_invoices' = purchase_invoices \cup {session_header(s)}
            /\ purchase_invoice_details' =
                  purchase_invoice_details \cup session_details(s)
            /\ sessions' = [sessions EXCEPT ![s] =
                  [@ EXCEPT !.wizard_step = "done", !.last_create = "success"]]
       ELSE /\ sessions' = [sessions EXCEPT ![s] =
                  [@ EXCEPT !.last_create =
                      IF ~authenticated THEN "auth_failed"
                      ELSE IF ~db_ok THEN "db_failed" ELSE "refused"]]
            /\ UNCHANGED <<purchase_invoices, purchase_invoice_details>>
    /\ UNCHANGED <<dbVars, medias, purchase_invoice_medias, s3, wizVars,
                   invoice_creating, runVars, rateVars, curVars, termVars,
                   amtVars, manageVars>>

SessNext ==
    \/ \E s \in SessionIds, sel \in SUBSET LineIds, returned \in {{}, PoIds} :
          session_proceed_to_preview(s, sel, returned)
    \/ \E s \in SessionIds, is_advance_payment \in BOOLEAN, db_ok \in BOOLEAN,
          timestamp \in Timestamps :
          review_invoice(s, is_advance_payment, db_ok, timestamp)
    \/ \E s \in SessionIds, authenticated \in BOOLEAN, db_ok \in BOOLEAN :
          create_invoice(s, authenticated, db_ok)

SpecSess == InitSess /\ [][SessNext]_vars

\* ---------------------------------------------------------------------
\* C26
\* ---------------------------------------------------------------------
\* quantity of the PO line on the detail rows of the invoices
invoiced_on_po_line(p) ==
    SumQty({d \in purchase_invoice_details : d.product_purchase_order_id = p})

\* po_remaining_qty of the PO line before any session created an invoice
remaining_before_sessions(p) == po_remaining_qty(p) + invoiced_on_po_line(p)

\* the session tried to create its invoice in this step, with the user
\* known and the database working
create_attempted(s) ==
    /\ sessions[s].wizard_step = "confirm"
    /\ sessions'[s] # sessions[s]
    /\ sessions'[s].last_create \notin {"auth_failed", "db_failed"}

\* C26: creation checks no quantity and waits for no other session: every
\* attempt of a session in the confirm step, with the user known and the
\* database working, writes the header and one detail row per selected line
\* with the arrival quantity, whatever the PO line has left at that moment
\* and whatever the other session has committed since the validation.
C26_CreateChecksNoQuantity ==
    [][\A s \in SessionIds :
          create_attempted(s) =>
             /\ sessions'[s].last_create = "success"
             /\ sessions'[s].wizard_step = "done"
             /\ purchase_invoices' = purchase_invoices \cup {session_header(s)}
             /\ purchase_invoice_details' =
                   purchase_invoice_details \cup session_details(s)
             /\ \A i \in sessions[s].selected_ans :
                   \E d \in purchase_invoice_details' \ purchase_invoice_details :
                      /\ d.arrival_detail_id = i
                      /\ d.purchased_invoice_quantity =
                            arrival_details[i].arrival_quantity
    ]_vars

\* both sessions passed the validation with lines of PO line 1, both
\* committed, and the PO line is invoiced for more than 110% of what it
\* had left before either started
C26_Witness ==
    /\ \A s \in SessionIds :
          /\ sessions[s].wizard_step = "done"
          /\ sessions[s].last_create = "success"
          /\ sessions[s].po_result.can_invoice
          /\ \A i \in sessions[s].selected_ans :
                arrival_details[i].product_purchase_order_id = 1
    /\ sessions[1].selected_ans # sessions[2].selected_ans
    /\ remaining_before_sessions(1) > 0
    /\ 10 * invoiced_on_po_line(1) > 11 * remaining_before_sessions(1)

\* a session that starts after the other one committed is stopped by the
\* validation
LaterSessionIsBlocked ==
    /\ sessions[1].wizard_step = "done"
    /\ sessions[2].wizard_step = "select"
    /\ sessions[2].po_result.error = "Selection exceeds PO remaining quantity"

\* ---------------------------------------------------------------------
\* C27
\* ---------------------------------------------------------------------
\* C27: no two committed invoices have the same invoice_number, and the
\* number of a committed invoice ends in A exactly when it is an advance
\* payment and in P otherwise.
C27_CommittedNumbersAreUnique ==
    /\ \A r1, r2 \in purchase_invoices :
          r1 # r2 => r1.invoice_number # r2.invoice_number
    /\ \A r \in purchase_invoices :
          /\ r.invoice_number[Len(r.invoice_number)] =
                (IF r.advance_payment = 1 THEN "A" ELSE "P")

\* the suffix of a committed number follows the type of the invoice
CommittedSuffixFollowsType ==
    \A r \in purchase_invoices :
       /\ r.invoice_number[Len(r.invoice_number)] \in {"A", "P"}
       /\ r.invoice_number[Len(r.invoice_number)] = "A" <=>
             r.advance_payment = 1 /\ r.invoice_type = "PROFORMA_INVOICE"

\* ---------------------------------------------------------------------
\* C28
\* ---------------------------------------------------------------------
\* objects of the attempt that are in the store although no delete was
\* issued for them
objects_left_by_attempt == (attempt.keys \cap s3) \ attempt.deletes_issued

\* C28: when a creation attempt has ended in failure, every object it
\* uploaded is gone from the store or had a delete issued for it that did
\* not succeed; this includes an attempt in which a file of the batch
\* failed after other files were uploaded.
C28_FailedAttemptLeavesNoObject ==
    (pc = "idle" /\ attempt.outcome = "failed") => objects_left_by_attempt = {}

\* the same for the attempts in which every file was uploaded
FailedAttemptAfterUploadsLeavesNoObject ==
    (pc = "idle" /\ attempt.outcome = "failed" /\ ~attempt.upload_failed) =>
        objects_left_by_attempt = {}

\* an attempt failed in the media records or in the invoice transaction,
\* after it uploaded a file, and its object is gone
ObjectsDeletedAfterLateFailure ==
    /\ pc = "idle" /\ attempt.outcome = "failed"
    /\ ~attempt.upload_failed
    /\ attempt.keys # {}
    /\ attempt.keys \cap s3 = {}

\* ---------------------------------------------------------------------
\* C30
\* ---------------------------------------------------------------------
\* PO lines of the validated selection for which the summary query gave
\* no row
unchecked_po_lines ==
    IF summary.shown /\ summary.po_called
    THEN unique(summary.rows, "product_purchase_order_id") \ summary.po_summary
    ELSE {}

\* C30: when the summary query gave no row for a PO line of the validated
\* selection (it failed, returned nothing, or has no row for the line),
\* the validation reports has_warnings with the warning that the PO level
\* constraints could not be validated.
C30_UncheckedPoLineIsWarned ==
    unchecked_po_lines # {} =>
        /\ summary.po_result.has_warnings
        /\ \E w \in summary.po_result.warnings : w[1] = "could_not_validate"

\* when the summary query gave a row for every PO line, a selection over
\* 110% of what a PO line has left is not offered for invoicing
CheckedSelectionOverCeilingIsBlocked ==
    (summary.shown /\ summary.po_called /\ unchecked_po_lines = {}
       /\ \E p \in unique(summary.rows, "product_purchase_order_id") :
             10 * SumOver({i \in summary.rows :
                             arrival_details[i].product_purchase_order_id = p},
                          [i \in LineIds |-> summary.df[i].uninvoiced_quantity])
                > 11 * summary.df[CHOOSE i \in summary.rows :
                            arrival_details[i].product_purchase_order_id = p
                         ].po_line_pending_invoiced_qty)
    => ~summary.proceed

====
